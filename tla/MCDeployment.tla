---------------------------- MODULE MCDeployment ----------------------------
(***************************************************************************)
(* The three ways in which the files of a deployment come about: edited by *)
(* hand, kept by the rotation procedure, or generated.  They are explored  *)
(* side by side.                                                           *)
(***************************************************************************)
EXTENDS Rotation, QuickDocker

VARIABLE scenario

deploymentVars == <<rotationVars, genVars, scenario>>

-----------------------------------------------------------------------------
(* Files written by hand.                                                  *)

Svc(n, a, cidrs) == [name |-> n, listen |-> a, cidrs |-> cidrs]
Web == Svc("web", <<"0.0.0.0", 80>>, {})
Ssh == Svc("ssh", <<"0.0.0.0", 22>>, {"10.0.0.0/8"})
Db == Svc("db", <<"127.0.0.1", 80>>, {})

Entry(id, services) ==
  [id |-> id, pubkey |-> <<"scalar", EncodePubkey(0)>>,
   pqPubkey |-> <<"scalar", EncodePQPubkey(0)>>, services |-> services]

ServerDoc ==
  [unknown |-> {}, listen |-> <<"0.0.0.0", 5679>>, cert |-> "server.crt", key |-> "server.key",
   clients |-> <<Entry("c", <<Web, Ssh>>), Entry("d", <<Db>>)>>,
   maxStreams |-> 0, handshake |-> 0, idle |-> 0, heartbeat |-> 0]

ClientDoc ==
  [unknown |-> {}, remote |-> <<"example.com", 5679>>, fingerprint |-> <<"hex", 0>>,
   id |-> "c", privkeyFile |-> "ed even", pqPrivkeyFile |-> "pq even",
   services |-> [n \in {"web"} |-> <<"127.0.0.1", 8080>>],
   initialBackoff |-> 0, maxBackoff |-> 0]

Files ==
  [p \in {"server.yaml", "client.yaml", "server.crt", "server.key",
          "ed even", "ed odd", "pq even", "pq odd", "server compose", "client compose"} |->
     CASE p = "server.yaml" -> ServerDoc
       [] p = "client.yaml" -> ClientDoc
       [] p = "server.crt" -> <<"CERTIFICATE", 0>>
       [] p = "server.key" -> <<"PRIVATE KEY", 0>>
       [] p = "ed even" -> PrivkeyPEM(0)
       [] p = "pq even" -> PQPrivkeyPEM(0)
       [] OTHER -> Err]

\* Server files with each mistake the loader tells apart, and correct ones.
ServerDocs ==
  LET d == ServerDoc
      with(ce) == [d EXCEPT !.clients[2] = ce]
      e == Entry("d", <<Db>>)
      svc(s) == with([e EXCEPT !.services = <<Db, s>>])
  IN  {Err, d, [d EXCEPT !.unknown = {"tlz"}], [d EXCEPT !.listen = <<>>],
       [d EXCEPT !.cert = ""], [d EXCEPT !.clients = <<>>],
       [d EXCEPT !.cert = "server.key"], [d EXCEPT !.maxStreams = -1],
       [d EXCEPT !.idle = 30], [d EXCEPT !.heartbeat = 300], [d EXCEPT !.heartbeat = 299],
       [d EXCEPT !.handshake = -1], [d EXCEPT !.maxStreams = 1, !.idle = 2, !.heartbeat = 1],
       with(Entry("", <<Db>>)), with(Entry("c", <<Db>>)), with(Entry("d", <<>>)),
       with([e EXCEPT !.pubkey = <<"seq", <<>>>>]), with([e EXCEPT !.pubkey = <<"map", 0>>]),
       with([e EXCEPT !.pubkey = <<"seq", <<EncodePubkey(0), EncodePubkey(1)>>>>]),
       with([e EXCEPT !.pubkey = <<"scalar", EncodePQPubkey(0)>>]),
       with([e EXCEPT !.pqPubkey = <<"scalar", EncodePQPubkey(Garbage)>>]),
       svc(Web), svc([Db EXCEPT !.listen = <<"127.0.0.1", 81>>]),
       svc(Svc("", <<"127.0.0.1", 81>>, {})), svc(Svc("x", <<>>, {})),
       svc(Svc("x", <<"127.0.0.1", 81>>, {Garbage})), svc(Svc("x", <<"127.0.0.1", 81>>, {}))}

ClientDocs ==
  LET d == ClientDoc IN
    {Err, d, [d EXCEPT !.unknown = {"jittre"}], [d EXCEPT !.remote = <<>>],
     [d EXCEPT !.fingerprint = <<"short", 0>>], [d EXCEPT !.fingerprint = <<"not hex", 0>>],
     [d EXCEPT !.id = ""], [d EXCEPT !.privkeyFile = "pq even"], [d EXCEPT !.privkeyFile = "ed odd"],
     [d EXCEPT !.services = [n \in {} |-> 0]], [d EXCEPT !.services = [n \in {"web"} |-> <<>>]],
     [d EXCEPT !.initialBackoff = 61], [d EXCEPT !.initialBackoff = 61, !.maxBackoff = 61],
     [d EXCEPT !.maxBackoff = -1], [d EXCEPT !.maxBackoff = 1]}

AllEdits == [p \in {"server.yaml", "client.yaml"} |->
               IF p = "server.yaml" THEN ServerDocs ELSE ClientDocs]

-----------------------------------------------------------------------------
(* Specifications for quick-docker.                                        *)

Sv(n, port, host) == [name |-> n, client |-> <<"127.0.0.1", port>>, server |-> <<host, port>>]

Base ==
  [listen |-> <<"0.0.0.0", 4790>>, address |-> <<"example.com", 4790>>,
   serverMode |-> "host", clientMode |-> "host", id |-> "demo", projectName |-> "",
   services |-> <<Sv("db", 3306, "172.17.0.3"), Sv("web", 80, "0.0.0.0")>>]

Isolated == [Base EXCEPT !.serverMode = "isolated", !.clientMode = "isolated"]

\* Specifications with values that mean the same in YAML and in a container.
PortableSpecs ==
  {Base, Isolated, [Isolated EXCEPT !.listen = <<"", 4790>>],
   [Base EXCEPT !.id = "other", !.services = <<Sv("web", 80, "0.0.0.0")>>],
   [Base EXCEPT !.id = ""], [Base EXCEPT !.projectName = Garbage],
   [Base EXCEPT !.services[1].server = <<"0.0.0.0", 80>>], [Base EXCEPT !.clientMode = "bridge"]}

ASSUME \A s \in PortableSpecs : SpecValidate(s) => Portable(s)

\* Two addresses of one port on different hosts.
SamePortSpecs ==
  {Base, [Isolated EXCEPT !.services[1].server = <<"172.17.0.3", 80>>,
                          !.services[2].server = <<"172.17.0.4", 80>>]}

-----------------------------------------------------------------------------
NoRotation == stage = "none" /\ edKey = <<0, 0>> /\ pqKey = <<0, 0>>
NoGeneration == dirs = {} /\ plan = <<>> /\ spec = Err /\ force = FALSE /\ gen = 0 /\ exit = "none"

DeploymentInit ==
  \/ scenario = "edits" /\ ConfigInit /\ NoRotation /\ NoGeneration
  \/ scenario = "rotation" /\ RotationInit /\ NoGeneration
  \/ scenario = "generation" /\ GenInit /\ NoRotation

DeploymentNext ==
  /\ UNCHANGED scenario
  /\ \/ scenario = "edits" /\ ConfigNext /\ UNCHANGED <<stage, edKey, pqKey, genVars>>
     \/ scenario = "rotation" /\ RotationNext /\ UNCHANGED genVars
     \/ scenario = "generation" /\ GenNext /\ UNCHANGED <<stage, edKey, pqKey>>

DeploymentSpec == DeploymentInit /\ [][DeploymentNext]_deploymentVars

=============================================================================
