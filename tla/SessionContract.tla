-------------------------- MODULE SessionContract --------------------------
(***************************************************************************)
(* What the login of the dashboard promises.  A login opens at most one      *)
(* session, with the level of its user; the session admits requests up to    *)
(* that level, never later than Lifetime after it was opened nor more than   *)
(* Idle after it was last used; once it has ended it never comes back.       *)
(***************************************************************************)
EXTENDS Integers

CONSTANTS Logins,    \* each one an attempt of a user to log in
          Levels,    \* of viewers, operators and administrators, numbers
          Lifetime, Idle

VARIABLES time,      \* the time
          state,     \* per login: unopened, ended or an open session
          admitted   \* <<login, level>>: the requests that were let in

contractVars == <<time, state, admitted>>

Without(phase) == [phase |-> phase, level |-> 0, opened |-> 0, used |-> 0]
Unopened == Without("unopened")
Ended    == Without("ended")
Begun(level) == [phase |-> "open", level |-> level, opened |-> time, used |-> time]

Open(l) == state[l].phase = "open"

ContractInit ==
  /\ time = 0
  /\ state = [l \in Logins |-> Unopened]
  /\ admitted = {}

\* A request may use the session and still be refused, for what it needs or
\* for a reason that has nothing to do with the session.
Use(l) ==
  /\ Open(l)
  /\ time < state[l].opened + Lifetime
  /\ time - state[l].used <= Idle
  /\ state' = [state EXCEPT ![l].used = time]
  /\ \/ \E need \in Levels : /\ need <= state[l].level
                             /\ admitted' = admitted \cup {<<l, need>>}
     \/ UNCHANGED admitted
  /\ UNCHANGED time

\* Sessions end by a logout, or when they are found to be too old.
End ==
  /\ \E ended \in SUBSET {l \in Logins : Open(l)} :
       state' = [l \in Logins |-> IF l \in ended THEN Ended ELSE state[l]]
  /\ UNCHANGED <<time, admitted>>

\* When a session begins, others that are too old may be removed.
Begin(l) ==
  /\ state[l] = Unopened
  /\ \E level \in Levels, ended \in SUBSET {k \in Logins : Open(k)} :
       state' = [k \in Logins |->
                   IF k = l THEN Begun(level)
                   ELSE IF k \in ended THEN Ended ELSE state[k]]
  /\ UNCHANGED <<time, admitted>>

Pass == time' > time /\ UNCHANGED <<state, admitted>>

ContractNext == (\E l \in Logins : Begin(l) \/ Use(l)) \/ End \/ Pass

ContractSpec == ContractInit /\ [][ContractNext]_contractVars
=============================================================================
