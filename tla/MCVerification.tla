--------------------------- MODULE MCVerification ---------------------------
(* Two requests at a time on one account.  Profiles of different owners share *)
(* no row and no key, so that one active account at a time shows all there is. *)
(* Settings and templates share nothing with profiles either, but for the log *)
(* that nobody reads: they are explored from the state without accounts.      *)
EXTENDS Verification, Configuration, FiniteSets

NoAccounts == \A o \in Owner : ~active[o] /\ profile[o] = None

MCInit == Init /\ ConfigInit /\ Cardinality({o \in Owner : active[o]}) <= 1

\* Of two faults the second is that the broker refuses a task once more.
SecondFault == faults' = 2 => \E w \in Worker : SendRaisesAgain(w)

MCNext == \/ Next /\ SecondFault /\ UNCHANGED configVars
          \/ NoAccounts /\ ConfigNext /\ UNCHANGED vars

MCSpec == MCInit /\ [][MCNext]_<<vars, configVars>>
=============================================================================
