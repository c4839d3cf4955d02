--------------------------- MODULE AgentLifecycle ---------------------------
(***************************************************************************)
(* What the agent promises the process that embeds it: at most one         *)
(* runtime ever exists; the caller told "ok" is the one that made it; and  *)
(* every call that is served is served by that runtime, so a checkpoint    *)
(* is a checkpoint of the runtime the applies went to.                     *)
(***************************************************************************)
CONSTANTS Requests, NoRuntime

VARIABLES
  current,   \* the runtime, or NoRuntime
  made,      \* the requests that were told they made the runtime
  served     \* which runtime served a call

Init ==
  /\ current = NoRuntime
  /\ made = {}
  /\ served = [r \in Requests |-> NoRuntime]

\* A spawn or restore takes effect and will be acknowledged.
Establish(r) ==
  /\ current = NoRuntime
  /\ current' = r
  /\ made' = made \cup {r}
  /\ UNCHANGED served

\* An apply or checkpoint reaches the runtime.
Serve(r) ==
  /\ current # NoRuntime
  /\ served[r] = NoRuntime
  /\ served' = [served EXCEPT ![r] = current]
  /\ UNCHANGED <<current, made>>

Next == \E r \in Requests : Establish(r) \/ Serve(r)

Spec == Init /\ [][Next]_<<current, made, served>>
=============================================================================
