----------------------------- MODULE QuickDocker -----------------------------
(***************************************************************************)
(* "passage quick-docker": validation of the specification file, and       *)
(* Generate, which replaces the directories server/ and client/ of its     *)
(* output directory file by file and may fail, or be killed, at each step. *)
(* Either directory may be started with docker compose at any moment; what *)
(* then runs is what Config makes of the mounted files.                    *)
(*                                                                         *)
(* A generation is the run of Generate that made the keys; keys, seeds and *)
(* certificates are named by it.  The services of a specification are      *)
(* listed in the order of sortedServiceNames.                              *)
(***************************************************************************)
EXTENDS Config

CONSTANTS
  Specs,   \* specification files the operator may pass
  MaxRuns  \* bound on the number of runs

VARIABLES
  dirs,    \* which of the two directories exist
  plan,    \* the steps Generate has still to take
  spec,    \* its specification
  force,   \* its -force flag
  gen,     \* its number
  exit     \* how the last run ended: "none", "ok" or "error"

genVars == <<dirs, plan, spec, force, gen, exit>>

ServerFiles == {"server.crt", "server.key", "server.yaml", "server compose"}
ClientFiles == {"client.ed25519", "client.mldsa", "client.yaml", "client compose"}
FilesOf(dir) == IF dir = "server" THEN ServerFiles ELSE ClientFiles

Wildcard == {"", "0.0.0.0", "::"}

-----------------------------------------------------------------------------
(* What a specification may hold; its services are a map from their names. *)

SpecFile ==
  [listen : Address, address : Address, serverMode : Text, clientMode : Text, id : Text,
   projectName : Text \cup {Garbage},
   services : Seq([name : Text, client : Address, server : Address])]

ASSUME SpecsAssumption ==
  \A s \in Specs :
    /\ s \in SpecFile /\ Injective([i \in DOMAIN s.services |-> s.services[i].name])
    /\ Err \notin ClientFile(Names(s.services))

SpecValidate(s) ==
  /\ s.listen # <<>> /\ s.address # <<>>
  /\ s.serverMode \in {"host", "isolated"} /\ s.clientMode \in {"host", "isolated"}
  /\ s.id # "" /\ s.projectName # Garbage
  /\ s.services # <<>>
  /\ \A sv \in Members(s.services) : sv.name # "" /\ sv.client # <<>> /\ sv.server # <<>>
  /\ Injective([i \in DOMAIN s.services |-> s.services[i].server])

\* Values are rendered without quotes.  As YAML, null is the empty string, and
\* the brackets of an IPv6 host begin a list.
Plain(addr) == addr[1] # "::"
Scalar(text) == IF text = "null" THEN "" ELSE text

\* Faulty variant: the address of the specification in both modes.
ListenUntranslated(s, addr) == addr

ServerListenForService(s, addr) ==
  IF s.serverMode = "host" THEN addr ELSE <<"0.0.0.0", addr[2]>>

\* Values that mean the same in YAML, and addresses that can all be served, by a
\* container too.
Portable(s) ==
  /\ "null" \notin {s.id} \cup Names(s.services)
  /\ Plain(s.listen) /\ Plain(s.address)
  /\ \A sv \in Members(s.services) :
       Plain(sv.client) /\ Plain(ServerListenForService(s, sv.server))
  /\ s.serverMode = "isolated" =>
       /\ s.listen[1] \in Wildcard
       /\ Injective([i \in DOMAIN s.services |-> s.services[i].server[2]])
       /\ \A sv \in Members(s.services) : sv.server[2] # s.listen[2]

\* renderServerYAML, as the YAML decoder reads it.
ServerYAML(s, ed, pq) ==
  LET entry(sv) == [name |-> Scalar(sv.name), listen |-> ServerListenForService(s, sv.server),
                    cidrs |-> {}]
      services == [i \in DOMAIN s.services |-> entry(s.services[i])]
  IN  IF ~Plain(s.listen) \/ \E sv \in Members(services) : ~Plain(sv.listen) THEN Err
      ELSE [unknown |-> {}, listen |-> s.listen, cert |-> "server.crt", key |-> "server.key",
            clients |-> <<[id |-> Scalar(s.id), pubkey |-> <<"scalar", ed>>,
                           pqPubkey |-> <<"scalar", pq>>, services |-> services]>>,
            maxStreams |-> 256, handshake |-> 10, idle |-> 300, heartbeat |-> 30]

ClientYAML(s, fingerprint) ==
  LET names == {Scalar(sv.name) : sv \in Members(s.services)}
      target(n) == (CHOOSE sv \in Members(s.services) : Scalar(sv.name) = n).client
  IN  IF ~Plain(s.address) \/ \E sv \in Members(s.services) : ~Plain(sv.client) THEN Err
      ELSE [unknown |-> {}, remote |-> s.address, fingerprint |-> fingerprint,
            id |-> Scalar(s.id), privkeyFile |-> "client.ed25519", pqPrivkeyFile |-> "client.mldsa",
            services |-> [n \in names |-> target(n)], initialBackoff |-> 1, maxBackoff |-> 60]

HostPortMapping(addr) == <<IF addr[1] \in Wildcard THEN "" ELSE addr[1], addr[2]>>

ServerPublishedPorts(s) ==
  {HostPortMapping(addr) : addr \in {s.listen} \cup {sv.server : sv \in Members(s.services)}}

ServerCompose(s) ==
  [mounts |-> {"server.crt", "server.key", "server.yaml"},
   ports |-> IF s.serverMode = "host" THEN {} ELSE ServerPublishedPorts(s)]

\* Faulty variant: the second key file is not mounted.
ClientComposeEdOnly(s) == [mounts |-> {"client.ed25519", "client.yaml"}]

ClientCompose(s) == [mounts |-> {"client.ed25519", "client.mldsa", "client.yaml"}]

\* A compose file is not mistaken for a missing one.
ASSUME ComposeAssumption == \A s \in Specs : Err \notin {ServerCompose(s), ClientCompose(s)}

-----------------------------------------------------------------------------
(* Generate.                                                               *)

Fresh(dir) == [op |-> "fresh", dir |-> dir]
Write(file, content) == [op |-> "write", file |-> file, content |-> content]

ServerKeys(g) ==
  <<Write("server.crt", <<"CERTIFICATE", g>>), Write("server.key", <<"PRIVATE KEY", g>>)>>
ClientKeys(g) ==
  <<Write("client.ed25519", PrivkeyPEM(g)), Write("client.mldsa", PQPrivkeyPEM(g))>>
ServerStack(s, g) ==
  <<Write("server.yaml", ServerYAML(s, EncodePubkey(g), EncodePQPubkey(g))),
    Write("server compose", ServerCompose(s))>>
ClientStack(s, g) ==
  <<Write("client.yaml", ClientYAML(s, <<"hex", g>>)), Write("client compose", ClientCompose(s))>>

\* Faulty variant: client/ is made fresh when its own turn comes.
GenerateInTurn(s, g) ==
  <<Fresh("server")>> \o ServerKeys(g) \o ServerStack(s, g)
  \o <<Fresh("client")>> \o ClientKeys(g) \o ClientStack(s, g)

\* The steps of Generate, in order.
Generate(s, g) ==
  <<Fresh("server"), Fresh("client")>>
  \o ServerKeys(g) \o ClientKeys(g) \o ServerStack(s, g) \o ClientStack(s, g)

GenInit ==
  /\ disk = [f \in ServerFiles \cup ClientFiles |-> Err]
  /\ server = Err /\ client = Err
  /\ dirs = {} /\ plan = <<>> /\ spec = Err /\ force = FALSE /\ gen = 0 /\ exit = "none"

\* runQuickDocker with a specification that Load accepts.
RunQuickDocker(s, f) ==
  /\ plan = <<>> /\ gen < MaxRuns
  /\ SpecValidate(s)
  /\ plan' = Generate(s, gen + 1)
  /\ spec' = s /\ force' = f /\ gen' = gen + 1 /\ exit' = "none"
  /\ UNCHANGED <<configVars, dirs>>

\* os.RemoveAll of some of the files.
Removed(gone) == [f \in DOMAIN disk |-> IF f \in gone THEN Err ELSE disk[f]]

Doing(op) == plan # <<>> /\ plan[1].op = op
Done == plan' = Tail(plan) /\ exit' = (IF Len(plan) = 1 THEN "ok" ELSE exit)
Fails == plan' = <<>> /\ exit' = "error"

EnsureFreshDir ==
  /\ Doing("fresh")
  /\ plan[1].dir \in dirs => force
  /\ disk' = Removed(FilesOf(plan[1].dir))
  /\ dirs' = dirs \cup {plan[1].dir}
  /\ Done
  /\ UNCHANGED <<server, client, spec, force, gen>>

WriteFile ==
  /\ Doing("write")
  /\ disk' = [disk EXCEPT ![plan[1].file] = plan[1].content]
  /\ Done
  /\ UNCHANGED <<server, client, dirs, spec, force, gen>>

\* A directory is in the way, cannot be removed completely, or not made again.
FreshDirFails ==
  /\ Doing("fresh")
  /\ \/ UNCHANGED <<disk, dirs>>
     \/ force /\ \E gone \in SUBSET FilesOf(plan[1].dir) : disk' = Removed(gone) /\ UNCHANGED dirs
     \/ force /\ disk' = Removed(FilesOf(plan[1].dir)) /\ dirs' = dirs \ {plan[1].dir}
  /\ Fails
  /\ UNCHANGED <<server, client, spec, force, gen>>

\* The file is left unusable or, if what fails is the Chmod, complete; or the
\* process is killed.  A configuration that is cut short counts as unusable:
\* nothing starts from it without the compose file, which is written after it.
WriteFails ==
  /\ Doing("write")
  /\ \E x \in {Err, plan[1].content} : disk' = [disk EXCEPT ![plan[1].file] = x]
  /\ Fails
  /\ UNCHANGED <<server, client, dirs, spec, force, gen>>

GenNext ==
  \/ \E s \in Specs, f \in BOOLEAN : RunQuickDocker(s, f)
  \/ EnsureFreshDir \/ WriteFile \/ FreshDirFails \/ WriteFails

GenSpec == GenInit /\ [][GenNext]_<<configVars, genVars>>

-----------------------------------------------------------------------------
\* A container sees the files its compose file mounts.
Mounted(compose) ==
  [f \in DOMAIN disk |-> IF disk[compose] # Err /\ f \in disk[compose].mounts THEN disk[f] ELSE Err]

StackServer == ServerFrom(Mounted("server compose"))
StackClient == ClientFrom(Mounted("client compose"))
StackServerStarts == ServerStarts(Mounted("server compose"))
StackClientStarts == ClientStarts(Mounted("client compose"))

\* Files of two runs never make a pair: at any moment, between runs, during
\* one, and after one that failed anywhere, if both directories can be started
\* at all, then the client they start is accepted by the server they start.
NoMixedGenerations ==
  StackServerStarts /\ StackClientStarts => Accepts(StackServer, StackClient)

\* What a successful run has written starts, on both sides.
StackStarts == exit = "ok" => StackServerStarts /\ StackClientStarts

\* Every address the specification names is served: it is published by the
\* container, under a port on which the server in it listens for connections
\* from outside, and no two listeners of the server want the same port.  The
\* control listener goes under the empty name, which no service has.
StackReachable ==
  exit = "ok" /\ StackServerStarts /\ spec.serverMode = "isolated" =>
    LET cfg == StackServer.cfg
        names == Names(cfg.clients[1].services)
        listen == [n \in names \cup {""} |->
                     IF n = "" THEN cfg.listen ELSE ServiceMap(cfg.clients[1].services)[n]]
    IN  /\ \A n \in DOMAIN listen : listen[n][1] \in Wildcard
        /\ \A m, n \in DOMAIN listen : listen[m][2] = listen[n][2] => m = n
        /\ {listen[n][2] : n \in DOMAIN listen} = {p[2] : p \in disk["server compose"].ports}

=============================================================================
