--------------------------- MODULE SessionRegistry ---------------------------
(***************************************************************************)
(* What the server's session bookkeeping promises, without the locks,      *)
(* listeners and goroutines of server.go: each client has at most one      *)
(* current session; a new session takes the place of the current one in    *)
(* one step; a session that lost its place never gets it back.             *)
(***************************************************************************)
CONSTANTS Client, Session, None

VARIABLES
  status,  \* status[s]
  owner    \* the client a session belongs to

registryVars == <<status, owner>>

Status == {"absent", "pending", "current", "superseded", "ended"}

RegistryTypeOK ==
  /\ status \in [Session -> Status]
  /\ owner \in [Session -> Client \cup {None}]

RegistryInit ==
  /\ status = [s \in Session |-> "absent"]
  /\ owner = [s \in Session |-> None]

\* A connection has been authenticated as client c.
Admit(s, c) ==
  /\ status[s] = "absent"
  /\ status' = [status EXCEPT ![s] = "pending"]
  /\ owner' = [owner EXCEPT ![s] = c]

\* Faulty variant: the current session keeps its place too.
PromoteAlongside(s) ==
  /\ status[s] = "pending"
  /\ status' = [status EXCEPT ![s] = "current"]
  /\ UNCHANGED owner

\* s becomes the session of its client, in place of the current one if any.
Promote(s) ==
  /\ status[s] = "pending"
  /\ status' = [t \in Session |->
                  IF t = s THEN "current"
                  ELSE IF status[t] = "current" /\ owner[t] = owner[s] THEN "superseded"
                  ELSE status[t]]
  /\ UNCHANGED owner

\* The connection is lost, a listener cannot be opened, or s was superseded.
End(s) ==
  /\ status[s] \in {"current", "superseded"}
  /\ status' = [status EXCEPT ![s] = "ended"]
  /\ UNCHANGED owner

\* The process dies.
Crash ==
  /\ status' = [s \in Session |-> "ended"]
  /\ UNCHANGED owner

RegistryNext ==
  \/ \E s \in Session, c \in Client : Admit(s, c)
  \/ \E s \in Session : Promote(s) \/ End(s)
  \/ Crash

RegistrySpec == RegistryInit /\ [][RegistryNext]_registryVars

\* No client ever has two current sessions: replaceSession hands the place over.
OneCurrent ==
  \A s, t \in Session :
    status[s] = "current" /\ status[t] = "current" /\ owner[s] = owner[t] => s = t

=============================================================================
