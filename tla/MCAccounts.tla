----------------------------- MODULE MCAccounts -----------------------------
(* Accounts for TLC: logins are interchangeable, and so are the handlers   *)
(* that set a password.                                                    *)
EXTENDS Accounts, TLC

HandlerSymmetry == Permutations(Login) \cup Permutations(Form)

CountsAreTold == \A k \in Key : counter[k].unread = 0

FormsRest ==
  /\ \A f \in Form : form[f] = NoForm
  /\ \A k \in Link : link[k].expires = 0

\* Counts that are not told, and handlers that set a password, are explored
\* beside the logins, but not beside each other: they share nothing.
NotBoth == CountsAreTold \/ FormsRest

=============================================================================
