---------------------------- MODULE HookedEmulator ----------------------------
(***************************************************************************)
(* The emulation loop of M-ulator and the hooks that observe and control   *)
(* it (m-ulator/src/emulator_base.cpp).                                    *)
(*                                                                         *)
(* remove_hook only queues an id; the hook leaves its list in the next     *)
(* cleanup_hooks, which runs after every list of callbacks and at both     *)
(* ends of emulate(), never while a list is being walked.  m_has_* flags   *)
(* cache which lists are not empty.  stop_emulation overwrites the return  *)
(* code that every stage of clock_cpu tests.                               *)
(*                                                                         *)
(* The eight lists of memory and register accesses behave alike and are    *)
(* represented by one list called before an access and one called after.   *)
(* A callback may remove hooks, add one of another kind, or stop; adding   *)
(* to the list that is being walked would invalidate the iteration.        *)
(***************************************************************************)
EXTENDS Integers, Sequences, FiniteSets

CONSTANTS MaxHooks,  \* bound on the calls of add_*_hook
          MaxCycles  \* bound on max_instructions of a call of emulate

ASSUME HookAssumption == MaxHooks \in Nat \ {0} /\ MaxCycles \in Nat \ {0}

HookType == {"fetch", "decode", "executed", "before_access", "after_access"}
Hook     == 1 .. MaxHooks   \* the hooks ever added, in order of their adding

VARIABLES
  hooks,      \* type -> its list of [id, hook]
  has,        \* type -> m_has_on_*_hooks
  type_of,    \* m_hook_id_type: id -> type
  next_id,    \* m_next_hook_id
  queue,      \* m_remove_hooks
  requested,  \* m_cleanup_requested
  code,       \* m_return_code
  emulated,   \* m_emulated_time
  cycles,     \* max_instructions
  phase,      \* where clock_cpu is
  back,       \* where an access returns to
  pos,        \* next callback of the list being walked
  added,      \* auxiliary: number of hooks added so far
  live,       \* auxiliary: hooks added and neither removed nor cleared
  dead,       \* auxiliary: hooks removed while no emulation was running
  called,     \* auxiliary: hooks called by the walk just finished
  stopped,    \* auxiliary: stop_emulation was called since emulate started
  copied      \* auxiliary: this emulator was made by the copy constructor

registry == <<hooks, has, type_of, next_id, queue, requested>>
loop     == <<code, emulated, cycles, phase, back, pos>>
ghosts   == <<added, live, dead, called, stopped, copied>>
vars     == <<registry, loop, ghosts>>

Walks == {"fetch", "decode", "executed", "before_access", "after_access"}
Registered == UNION {{hooks[t][i].hook : i \in DOMAIN hooks[t]} : t \in HookType}

Init ==
  /\ hooks = [t \in HookType |-> <<>>]
  /\ has = [t \in HookType |-> FALSE]
  /\ type_of = [id \in {} |-> "fetch"]
  /\ next_id = 1
  /\ queue = <<>> /\ requested = FALSE
  /\ code = "UNINITIALIZED" /\ emulated = 0 /\ cycles = 0
  /\ phase = "idle" /\ back = "idle" /\ pos = 1
  /\ added = 0 /\ live = {} /\ dead = {} /\ called = {}
  /\ stopped = FALSE /\ copied = FALSE

-----------------------------------------------------------------------------
(* Mutant: an id from the length of the list instead of a running number.   *)
AddToByLength(t) ==
  /\ added < MaxHooks
  /\ added' = added + 1
  /\ hooks' = [hooks EXCEPT ![t] = Append(@, [id |-> Len(@) + 1, hook |-> added + 1])]
  /\ has' = [has EXCEPT ![t] = TRUE]
  /\ type_of' = [id \in DOMAIN type_of \union {Len(hooks[t]) + 1} |->
                   IF id = Len(hooks[t]) + 1 THEN t ELSE type_of[id]]
  /\ next_id' = next_id + 1
  /\ live' = live \union {added + 1}
  /\ UNCHANGED <<queue, requested>>

(* add_*_hook *)
AddTo(t) ==
  /\ added < MaxHooks
  /\ added' = added + 1
  /\ hooks' = [hooks EXCEPT ![t] = Append(@, [id |-> next_id, hook |-> added + 1])]
  /\ has' = [has EXCEPT ![t] = TRUE]
  /\ type_of' = [id \in DOMAIN type_of \union {next_id} |->
                   IF id = next_id THEN t ELSE type_of[id]]
  /\ next_id' = next_id + 1
  /\ live' = live \union {added + 1}
  /\ UNCHANGED <<queue, requested>>

(* remove_hook, with the id a registered hook was given *)
Request(t, i) ==
  /\ queue' = Append(queue, hooks[t][i].id)
  /\ requested' = TRUE
  /\ live' = live \ {hooks[t][i].hook}
  /\ UNCHANGED <<hooks, has, type_of, next_id, added>>

(* A list from which the hooks with some ids are erased. *)
Without(list, ids) ==
  LET kept[n \in 0 .. Len(list)] ==
        IF n = 0 THEN <<>>
        ELSE IF list[n].id \in ids THEN kept[n - 1] ELSE Append(kept[n - 1], list[n])
  IN  kept[Len(list)]

Queued == {queue[i] : i \in DOMAIN queue}

(* Mutant: only the first of the queued ids is cleaned up.                  *)
KeptButFirst(t) == Without(hooks[t], {queue[1]})

(* The lists after cleanup_hook of every queued id, and the flags it keeps. *)
Kept(t) == Without(hooks[t], {id \in Queued : type_of[id] = t})

(* Mutant: the flag of a list is cleared with the first hook that leaves it. *)
CleanupClearsFlags ==
  IF requested
  THEN /\ hooks' = [t \in HookType |-> Kept(t)]
       /\ has' = [t \in HookType |-> has[t] /\ Kept(t) = hooks[t]]
       /\ type_of' = [id \in DOMAIN type_of \ Queued |-> type_of[id]]
       /\ queue' = <<>>
       /\ requested' = FALSE
       /\ UNCHANGED next_id
  ELSE UNCHANGED registry

(* cleanup_hooks *)
Cleanup ==
  IF requested
  THEN /\ hooks' = [t \in HookType |-> Kept(t)]
       /\ has' = [t \in HookType |-> IF Kept(t) = hooks[t] THEN has[t] ELSE Kept(t) # <<>>]
       /\ type_of' = [id \in DOMAIN type_of \ Queued |-> type_of[id]]
       /\ queue' = <<>>
       /\ requested' = FALSE
       /\ UNCHANGED next_id
  ELSE UNCHANGED registry

-----------------------------------------------------------------------------
(* Calls of the user between two calls of emulate. *)
Add(t) ==
  /\ phase = "idle"
  /\ AddTo(t)
  /\ UNCHANGED <<loop, dead, called, stopped, copied>>

Remove(t, i) ==
  /\ phase = "idle" /\ Len(queue) < MaxHooks
  /\ Request(t, i)
  /\ dead' = dead \union {hooks[t][i].hook}
  /\ UNCHANGED <<loop, called, stopped, copied>>

ClearHooks ==
  /\ phase = "idle"
  /\ hooks' = [t \in HookType |-> <<>>]
  /\ has' = [t \in HookType |-> FALSE]
  /\ next_id' = 1
  /\ live' = {}
  /\ UNCHANGED <<type_of, queue, requested, loop, added, dead, called, stopped, copied>>

(* Emulator(const Emulator&): lists, ids and queue are copied; the flags    *)
(* and m_cleanup_requested are left uninitialised.                          *)
Copy ==
  /\ phase = "idle" /\ ~copied
  /\ copied' = TRUE
  /\ has' \in [HookType -> BOOLEAN]
  /\ requested' \in BOOLEAN
  /\ UNCHANGED <<hooks, type_of, next_id, queue, loop, added, live, dead, called, stopped>>

-----------------------------------------------------------------------------
Goto(p) == phase' = p /\ pos' = 1

(* Mutant: removals requested before emulate() wait for the first walk. *)
EmulateStartLazy(n) ==
  /\ phase = "idle"
  /\ code' = "OK" /\ emulated' = 0 /\ cycles' = n /\ stopped' = FALSE
  /\ Goto("before_access") /\ back' = "loop"
  /\ UNCHANGED <<registry, added, live, dead, called, copied>>

(* emulate() up to the loop; branch_write_PC is an access like any other. *)
EmulateStart(n) ==
  /\ phase = "idle"
  /\ Cleanup
  /\ code' = "OK" /\ emulated' = 0 /\ cycles' = n /\ stopped' = FALSE
  /\ Goto("before_access") /\ back' = "loop"
  /\ UNCHANGED <<added, live, dead, called, copied>>

(* Mutant: the budget is looked at before the return code. *)
LoopHeadBudgetFirst ==
  /\ phase = "loop"
  /\ IF emulated >= cycles
     THEN code' = "MAX_INSTRUCTIONS_REACHED" /\ Goto("end") /\ UNCHANGED back
     ELSE IF code # "OK" THEN Goto("end") /\ UNCHANGED <<code, back>>
     ELSE Goto("before_access") /\ back' = "validate" /\ UNCHANGED code
  /\ UNCHANGED <<registry, emulated, cycles, ghosts>>

(* The head of the loop in emulate, up to reading PC in clock_cpu. *)
LoopHead ==
  /\ phase = "loop"
  /\ CASE code # "OK"         -> Goto("end") /\ UNCHANGED <<code, back>>
       [] code = "OK" /\ emulated >= cycles ->
            code' = "MAX_INSTRUCTIONS_REACHED" /\ Goto("end") /\ UNCHANGED back
       [] OTHER ->
            \/ code' = "END_ADDRESS_REACHED" /\ Goto("end") /\ UNCHANGED back
            \/ Goto("before_access") /\ back' = "validate" /\ UNCHANGED code
  /\ UNCHANGED <<registry, emulated, cycles, ghosts>>

(* validate_address: no instruction at PC, or at the address 0 - 4 that     *)
(* results when a callback stopped the emulation before PC was read.        *)
Validate ==
  /\ phase = "validate"
  /\ \/ Goto(IF code = "OK" THEN "fetch" ELSE "loop") /\ UNCHANGED code
     \/ code' = "ERROR" /\ Goto("loop")
  /\ UNCHANGED <<registry, emulated, cycles, back, ghosts>>

(* Stopped by a fetch hook, or on to the dummy read of PSR; PC is read and  *)
(* validated once more when a hook has changed it.                          *)
Fetched ==
  /\ phase = "fetched"
  /\ IF code = "OK" THEN Goto("before_access") /\ back' \in {"decoding", "revalidate"}
                    ELSE Goto("loop") /\ UNCHANGED back
  /\ UNCHANGED <<registry, code, emulated, cycles, ghosts>>

Revalidate ==
  /\ phase = "revalidate"
  /\ \/ code = "OK" /\ Goto("before_access") /\ back' = "decoding" /\ UNCHANGED code
     \/ code # "OK" /\ Goto("loop") /\ UNCHANGED <<code, back>>
     \/ code' = "ERROR" /\ Goto("loop") /\ UNCHANGED back
  /\ UNCHANGED <<registry, emulated, cycles, ghosts>>

Decode ==
  /\ phase = "decoding"
  /\ \/ Goto("decode") /\ UNCHANGED code
     \/ Goto("loop") /\ code' = "ERROR"
  /\ UNCHANGED <<registry, emulated, cycles, back, ghosts>>

Decoded ==
  /\ phase = "decoded"
  /\ Goto(IF code = "OK" THEN "executing" ELSE "loop")
  /\ UNCHANGED <<registry, code, emulated, cycles, back, ghosts>>

(* execute() and the write of PSR: accesses, each skipped once the code is  *)
(* not OK, possibly an error; the instruction is over in any case.          *)
Execute ==
  /\ phase = "executing"
  /\ \/ code = "OK" /\ Goto("before_access") /\ back' = "executing" /\ UNCHANGED code
     \/ code = "OK" /\ code' = "ERROR" /\ Goto("executed") /\ UNCHANGED back
     \/ Goto("executed") /\ UNCHANGED <<code, back>>
  /\ UNCHANGED <<registry, emulated, cycles, ghosts>>

Executed ==
  /\ phase = "executed_all"
  /\ emulated' = emulated + 1
  /\ Goto("loop")
  /\ UNCHANGED <<registry, code, cycles, back, ghosts>>

EmulateEnd ==
  /\ phase = "end"
  /\ Cleanup
  /\ Goto("idle")
  /\ UNCHANGED <<code, emulated, cycles, back, ghosts>>

-----------------------------------------------------------------------------
After(walk) == CASE walk = "fetch"         -> "fetched"
                 [] walk = "decode"        -> "decoded"
                 [] walk = "executed"      -> "executed_all"
                 [] walk = "before_access" -> IF code = "OK" THEN "after_access" ELSE back
                 [] walk = "after_access"  -> back

Walking(t) == phase = t /\ has[t] /\ pos <= Len(hooks[t])

(* One callback of the list being walked. *)
Callback(t) ==
  /\ Walking(t)
  /\ pos' = pos + 1
  /\ called' = (IF pos = 1 THEN {} ELSE called) \union {hooks[t][pos].hook}
  /\ \/ UNCHANGED <<registry, code, stopped, added, live>>
     \/ /\ code' = "STOP_EMULATION_CALLED" /\ stopped' = TRUE
        /\ UNCHANGED <<registry, added, live>>
     \/ /\ Len(queue) < MaxHooks
        /\ \E u \in HookType : \E i \in DOMAIN hooks[u] : Request(u, i)
        /\ UNCHANGED <<code, stopped>>
     \/ /\ \E u \in HookType \ {t} : AddTo(u)
        /\ UNCHANGED <<code, stopped>>
  /\ UNCHANGED <<emulated, cycles, phase, back, dead, copied>>

(* The list is done: clean up. *)
WalkEnd(t) ==
  /\ phase = t /\ t \in Walks /\ has[t] /\ pos > Len(hooks[t])
  /\ Cleanup
  /\ Goto(After(t))
  /\ UNCHANGED <<code, emulated, cycles, back, ghosts>>

(* The flag says there is nothing to call. *)
NoWalk(t) ==
  /\ phase = t /\ t \in Walks /\ ~has[t]
  /\ called' = {}
  /\ Goto(After(t))
  /\ UNCHANGED <<registry, code, emulated, cycles, back, added, live, dead, stopped, copied>>

Emulate ==
  \/ \E n \in 1 .. MaxCycles : EmulateStart(n)
  \/ LoopHead \/ Validate \/ Fetched \/ Revalidate \/ Decode \/ Decoded \/ Execute \/ Executed \/ EmulateEnd
  \/ \E t \in Walks : Callback(t) \/ WalkEnd(t) \/ NoWalk(t)

User ==
  \/ \E t \in HookType : Add(t)
  \/ \E t \in HookType : \E i \in DOMAIN hooks[t] : Remove(t, i)

(* Hooks are cleared only when no removal is pending. *)
Next     == Emulate \/ User \/ (queue = <<>> /\ ClearHooks)
Spec     == Init /\ [][Next]_vars

(* Hooks are cleared at any time. *)
ClearSpec == Init /\ [][Next \/ ClearHooks]_vars

(* The emulator is copied, as it is for every thread of the simulator. *)
CopySpec == Init /\ [][Next \/ Copy]_vars

-----------------------------------------------------------------------------
(* A hook removed between two calls of emulate() is never called again: the *)
(* simulator removes hooks right before the data they point to, a local     *)
(* variable, goes away.                                                     *)
NoDeadCall == \A t \in Walks : Walking(t) => hooks[t][pos].hook \notin dead

(* A hook that is registered when its event occurs is called for it.        *)
RegisteredHooksCalled ==
  [][\A t \in Walks : (phase = t /\ phase' # t)
       => {hooks[t][i].hook : i \in DOMAIN hooks[t]} \subseteq called']_vars

(* A hook stays registered until it is removed or all hooks are cleared.    *)
LiveHooksRegistered == live \subseteq Registered

(* After emulate() no removal is pending and no removed hook is left.       *)
RemovalsCompleted ==
  [][(phase = "end" /\ phase' = "idle") => queue' = <<>> /\ Registered' = live']_vars

(* A stop requested by any callback ends the call of emulate(): no later    *)
(* stage of the instruction turns the code back to OK, and none of the      *)
(* reasons tested by the loop replaces it.                                  *)
StopNotLost ==
  stopped => code \in {"STOP_EMULATION_CALLED", "ERROR"}
=============================================================================
