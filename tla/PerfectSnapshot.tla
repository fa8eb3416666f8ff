--------------------------- MODULE PerfectSnapshot ---------------------------
(***************************************************************************)
(* What a Snapshot (armory/snapshot.h) promises its user: backup() saves   *)
(* "the current state including registers and RAM" and restore() returns   *)
(* the emulator to exactly that state.  Every backup here is a full copy.  *)
(*                                                                         *)
(* Restoring a snapshot makes every snapshot backed up after it unusable   *)
(* until it is reset and backed up again: the header asks for reset()      *)
(* "when the emulator was restored with an older backup".                  *)
(***************************************************************************)

CONSTANTS Snap,    \* the Snapshot objects attached to one emulator
          Ram,     \* the addresses of the RAM region
          Value,   \* the values of a RAM byte
          CPU      \* the values of CPU_State

VARIABLES ram,     \* RAM contents of the emulator
          cpu,     \* CPU_State of the emulator
          image,   \* usable snapshot -> the machine state it holds
          newer    \* snapshot -> the snapshots backed up after its own backup

vars == <<ram, cpu, image, newer>>

Without(f, S) == [s \in DOMAIN f \ S |-> f[s]]

Init ==
  /\ ram \in [Ram -> Value]
  /\ cpu \in CPU
  /\ image = [s \in {} |-> [ram |-> ram, cpu |-> cpu]]
  /\ newer = [s \in Snap |-> {}]

(* The emulated program runs: RAM and registers change in any way. *)
Run ==
  /\ ram' \in [Ram -> Value]
  /\ cpu' \in CPU
  /\ UNCHANGED <<image, newer>>

Forget(s) ==
  /\ image' = Without(image, {s})
  /\ UNCHANGED <<ram, cpu, newer>>

Backup(s) ==
  /\ image' = [t \in DOMAIN image \union {s} |->
                 IF t = s THEN [ram |-> ram, cpu |-> cpu] ELSE image[t]]
  /\ newer' = [t \in Snap |-> IF t = s THEN {} ELSE newer[t] \union {s}]
  /\ UNCHANGED <<ram, cpu>>

Restore(s) ==
  /\ s \in DOMAIN image
  /\ ram' = image[s].ram
  /\ cpu' = image[s].cpu
  /\ image' = Without(image, newer[s])
  /\ newer' = [newer EXCEPT ![s] = {}]

Next == Run \/ \E s \in Snap : Forget(s) \/ Backup(s) \/ Restore(s)

Spec == Init /\ [][Next]_vars
=============================================================================
