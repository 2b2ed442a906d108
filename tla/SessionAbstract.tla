---------------------------- MODULE SessionAbstract ----------------------------
(***************************************************************************)
(* What the connection state machine promises (spec.md, 4.2 and 3):       *)
(* one session, in one of the states Disconnected, Connecting, Connected,  *)
(* or without a client; a retry counter bounded by MaxRetries, reset by    *)
(* each successful connection and counted by each disconnection; a        *)
(* reconnection is scheduled by a disconnection only while the counter is *)
(* below the bound, and the one-shot timer is the sole driver of retries. *)
(* Nothing here is a task or a handle: every step is atomic.               *)
(***************************************************************************)
EXTENDS Naturals

CONSTANT MaxRetries

VARIABLES
  state,    \* "NoClient", "Disconnected", "Connecting" or "Connected"
  retries,  \* the RetryCounter
  pending   \* a reconnection timer is scheduled and not yet consumed

vars == <<state, retries, pending>>

States == {"NoClient", "Disconnected", "Connecting", "Connected"}

TypeOK ==
  /\ state \in States
  /\ retries \in 0..MaxRetries
  /\ pending \in BOOLEAN

Init ==
  /\ state = "NoClient"
  /\ retries = 0
  /\ pending = FALSE

\* start(): builds the client and issues a connect.
Start ==
  /\ state = "NoClient"
  /\ state' = "Connecting"
  /\ UNCHANGED <<retries, pending>>

\* The transport reports connected: the counter is reset.
Connect ==
  /\ state = "Connecting"
  /\ state' = "Connected"
  /\ retries' = 0
  /\ UNCHANGED pending

\* disconnected: arm the timer and count, while the counter is below the
\* bound; otherwise take no further automatic action.
Disconnect ==
  /\ state \in {"Connecting", "Connected"}
  /\ state' = "Disconnected"
  /\ IF retries < MaxRetries
       THEN retries' = retries + 1 /\ pending' = TRUE
       ELSE UNCHANGED <<retries, pending>>

\* The reconnection timer fires and reissues a connect on the same client.
Retry ==
  /\ state = "Disconnected"
  /\ pending
  /\ state' = "Connecting"
  /\ pending' = FALSE
  /\ UNCHANGED retries

\* stop(): the only path to "no client", from any state; the timer is
\* cancelled.
Stop ==
  /\ state /= "NoClient"
  /\ state' = "NoClient"
  /\ retries' = 0
  /\ pending' = FALSE

Next == Start \/ Connect \/ Disconnect \/ Retry \/ Stop

\* A connection attempt ends, in success or in a disconnection.
Settle == state = "Connecting" /\ (Connect \/ Disconnect)

\* The transport's network timeout settles every attempt; a scheduled
\* reconnection eventually happens.  Neither a start, a stop nor the loss
\* of an established connection is forced.
Fairness == WF_vars(Settle) /\ WF_vars(Retry)

Spec == Init /\ [][Next]_vars /\ Fairness

=============================================================================
