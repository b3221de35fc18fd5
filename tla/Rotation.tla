------------------------------ MODULE Rotation ------------------------------
(***************************************************************************)
(* Key rotation without an outage: the documented procedure, with          *)
(* "passage keygen" or "passage pq-keygen" writing the new keys, and both  *)
(* processes crashing and being restarted by their supervisor at any       *)
(* moment, with whatever the files hold at that moment.                    *)
(***************************************************************************)
EXTENDS Config

CONSTANT MaxRotations

VARIABLES
  stage,  \* how far the operator is, or "none" if the files are kept otherwise
  edKey,  \* the Ed25519 keys of the client: the one in use and the next
  pqKey   \* the same for ML-DSA

rotationVars == <<configVars, stage, edKey, pqKey>>

\* Keys are numbered in the order they are made; keys alternate between two files.
EdFile(k) == IF k % 2 = 0 THEN "ed even" ELSE "ed odd"
PQFile(k) == IF k % 2 = 0 THEN "pq even" ELSE "pq odd"

KeyFiles == {"ed even", "ed odd", "pq even", "pq odd"}

\* The deployment works before the first rotation, with the keys 0 of the client
\* in the first entry of server.yaml and in the files that the numbering gives.
ASSUME DeployedAssumption ==
  LET srv == InitialDisk["server.yaml"]
      clt == InitialDisk["client.yaml"]
  IN  /\ ServerStarts(InitialDisk) /\ ClientStarts(InitialDisk)
      /\ Accepts(ServerFrom(InitialDisk), ClientFrom(InitialDisk))
      /\ Err \notin ClientFile(DOMAIN clt.services)
      /\ srv.clients[1].id = clt.id
      /\ srv.clients[1].pubkey = <<"scalar", EncodePubkey(0)>>
      /\ srv.clients[1].pqPubkey = <<"scalar", EncodePQPubkey(0)>>
      /\ clt.privkeyFile = EdFile(0) /\ InitialDisk[EdFile(0)] = PrivkeyPEM(0)
      /\ clt.pqPrivkeyFile = PQFile(0) /\ InitialDisk[PQFile(0)] = PQPrivkeyPEM(0)
      /\ KeyFiles \cup {srv.cert, srv.key} \subseteq DOMAIN InitialDisk
      /\ {srv.cert, srv.key} \cap (KeyFiles \cup {"server.yaml", "client.yaml"}) = {}

RotationInit ==
  /\ ConfigInit
  /\ stage = "steady"
  /\ edKey = <<0, 0>> /\ pqKey = <<0, 0>>

Stage(from, to) == stage = from /\ stage' = to

-----------------------------------------------------------------------------
(* The commands.                                                           *)

\* os.WriteFile, which may fail with part of the file written.
WriteKey(path, pem, to) ==
  \/ disk' = [disk EXCEPT ![path] = pem] /\ stage' = to
  \/ disk' = [disk EXCEPT ![path] = <<pem[1], Garbage>>] /\ stage' = "steady"

\* runKeygen writes the Ed25519 key, then makes and writes the other.
KeygenEd ==
  /\ stage = "steady" /\ edKey[1] < MaxRotations
  /\ edKey' = <<edKey[1], edKey[1] + 1>>
  /\ WriteKey(EdFile(edKey'[2]), PrivkeyPEM(edKey'[2]), "one key")
  /\ UNCHANGED <<server, client, pqKey>>

KeygenPQ ==
  /\ stage = "one key"
  /\ pqKey' = <<pqKey[1], pqKey[1] + 1>>
  /\ WriteKey(PQFile(pqKey'[2]), PQPrivkeyPEM(pqKey'[2]), "keys")
  /\ UNCHANGED <<server, client, edKey>>

\* runPQKeygen: the Ed25519 key stays.
PQKeygen ==
  /\ stage = "steady" /\ pqKey[1] < MaxRotations
  /\ pqKey' = <<pqKey[1], pqKey[1] + 1>>
  /\ edKey' = <<edKey[1], edKey[1]>>
  /\ WriteKey(PQFile(pqKey'[2]), PQPrivkeyPEM(pqKey'[2]), "keys")
  /\ UNCHANGED <<server, client>>

-----------------------------------------------------------------------------
(* The procedure, from here on in the order of the documentation.          *)

\* The keys of the client's entry in server.yaml, as a scalar if there is one.
Node(keys) == IF keys[1] = keys[Len(keys)] THEN <<"scalar", keys[1]>> ELSE <<"seq", keys>>

WithKeys(doc, eds, pqs) ==
  [doc EXCEPT !.clients[1] =
     [@ EXCEPT !.pubkey = Node([i \in DOMAIN eds |-> EncodePubkey(eds[i])]),
               !.pqPubkey = Node([i \in DOMAIN pqs |-> EncodePQPubkey(pqs[i])])]]

ListKeys(eds, pqs) == disk' = [disk EXCEPT !["server.yaml"] = WithKeys(@, eds, pqs)]

AddKeys ==
  /\ Stage("keys", "added")
  /\ ListKeys(edKey, pqKey)
  /\ UNCHANGED <<server, client, edKey, pqKey>>

Deploy ==
  /\ Stage("added", "deployed")
  /\ StartServer
  /\ UNCHANGED <<disk, client, edKey, pqKey>>

SwitchClient ==
  /\ Stage("deployed", "switched")
  /\ disk' = [disk EXCEPT !["client.yaml"] =
                 [@ EXCEPT !.privkeyFile = EdFile(edKey[2]), !.pqPrivkeyFile = PQFile(pqKey[2])]]
  /\ UNCHANGED <<server, client, edKey, pqKey>>

RestartClient ==
  /\ Stage("switched", "moved")
  /\ StartClient
  /\ UNCHANGED <<disk, server, edKey, pqKey>>

DropKeys ==
  /\ Stage("moved", "dropped")
  /\ ListKeys(<<edKey[2]>>, <<pqKey[2]>>)
  /\ UNCHANGED <<server, client, edKey, pqKey>>

Redeploy ==
  /\ Stage("dropped", "steady")
  /\ StartServer
  /\ edKey' = <<edKey[2], edKey[2]>> /\ pqKey' = <<pqKey[2], pqKey[2]>>
  /\ UNCHANGED <<disk, client>>

RotationNext ==
  \/ Processes /\ UNCHANGED <<stage, edKey, pqKey>>
  \/ KeygenEd \/ KeygenPQ \/ PQKeygen
  \/ AddKeys \/ Deploy \/ SwitchClient \/ RestartClient \/ DropKeys \/ Redeploy

RotationSpec == RotationInit /\ [][RotationNext]_rotationVars

-----------------------------------------------------------------------------
\* A rotation is never an outage: at every moment of it a restart of either
\* process succeeds, and the restarted process and its running peer accept
\* each other, although they were started from different states of the files.
RestartSafe ==
  stage # "none" =>
    /\ ServerStarts(disk) /\ ClientStarts(disk)
    /\ client # Err => Accepts(ServerFrom(disk), client)
    /\ server # Err => Accepts(server, ClientFrom(disk))

=============================================================================
