------------------------------- MODULE Config -------------------------------
(***************************************************************************)
(* Configuration files and the processes started from them: LoadServer,    *)
(* LoadClient, the validators, NewServer, NewClient, and the decoding of   *)
(* keys and fingerprints.  A process keeps what it loaded while the files  *)
(* are edited under it.                                                    *)
(*                                                                         *)
(* An address is <<host, port>>, or <<>> for text that SplitHostPort       *)
(* rejects.  Key text is <<prefix, bytes>>, where bytes may be Garbage; a  *)
(* fingerprint is <<form, sum>>; a PEM file is <<type, bytes>>.  A YAML    *)
(* node that may be a string or a list is <<kind, value>>.                 *)
(***************************************************************************)
EXTENDS Integers, Sequences

CONSTANTS
  Err,          \* what a failing function returns, and the content of a missing file
  Garbage,      \* bytes that are no key, text that is no prefix
  InitialDisk,  \* the files of the two hosts before anything is started
  Edits         \* Edits[p]: what the operator may write to the file p

VARIABLES
  disk,    \* the content of each file
  server,  \* the Server of the running "passage server", or Err
  client   \* the Client of the running "passage client", or Err

configVars == <<disk, server, client>>

-----------------------------------------------------------------------------
(* What a file may hold, once it is text that the decoder accepts for the  *)
(* types of the structs.                                                   *)

\* All strings; the provers do not know of a literal that it is one.
Text ==
  STRING \cup {"", "ed25519", "mldsa", "hex", "CERTIFICATE", "PRIVATE KEY", "server.crt", "server.key",
              "client.ed25519", "client.mldsa", "ed even", "ed odd", "pq even", "pq odd", "0.0.0.0"}

Address == {<<>>} \cup (Text \X Int)
KeyText == Text \X (Nat \cup {Garbage})
YamlNode ==
  ({"scalar"} \X KeyText) \cup ({"seq"} \X Seq(KeyText)) \cup ({"map"} \X Int)

ServiceEntry == [name : Text, listen : Address, cidrs : SUBSET (Text \cup {Garbage})]
ClientEntry ==
  [id : Text, pubkey : YamlNode, pqPubkey : YamlNode, services : Seq(ServiceEntry)]

ServerFile ==
  [unknown : SUBSET Text, listen : Address, cert : Text, key : Text,
   clients : Seq(ClientEntry), maxStreams : Int, handshake : Int, idle : Int, heartbeat : Int]

\* The services are a map from the given names.
ClientFile(names) ==
  [unknown : SUBSET Text, remote : Address, fingerprint : KeyText, id : Text,
   privkeyFile : Text, pqPrivkeyFile : Text, services : [names -> Address],
   initialBackoff : Int, maxBackoff : Int]

Content(p, x) ==
  CASE p = "server.yaml" -> x = Err \/ x \in ServerFile
    [] p = "client.yaml" -> x = Err \/ x \in ClientFile(DOMAIN x.services)
    [] OTHER -> x = Err \/ x \in KeyText

ASSUME FilesAssumption ==
  /\ {"server.yaml", "client.yaml"} \subseteq DOMAIN InitialDisk
  /\ \A p \in DOMAIN InitialDisk : Content(p, InitialDisk[p])
  /\ \A p \in DOMAIN Edits : \A x \in Edits[p] : Content(p, x)

\* No content is mistaken for a missing file, and no key for garbage.
ASSUME ErrAssumption ==
  /\ Err \notin Nat /\ Garbage \notin Nat
  /\ Err \notin KeyText /\ Err \notin ServerFile

-----------------------------------------------------------------------------
Injective(f) == \A i, j \in DOMAIN f : f[i] = f[j] => i = j
Members(seq) == {seq[i] : i \in DOMAIN seq}

-----------------------------------------------------------------------------
(* The server's configuration.                                             *)

\* A scalar node is a list of one; UnmarshalYAML fails on other kinds of nodes.
StringOrSlice(node) == IF node[1] = "scalar" THEN <<node[2]>> ELSE node[2]
NodeDecodes(node) == node[1] \in {"scalar", "seq"}

OrDefault(v, default) == IF v = 0 THEN default ELSE v

\* Durations are in seconds.
ServerDefaults(c) ==
  [c EXCEPT !.maxStreams = OrDefault(@, 256), !.handshake = OrDefault(@, 10),
            !.idle = OrDefault(@, 300), !.heartbeat = OrDefault(@, 30)]

\* Every <<client, service>> position of the file, and the address there.
Positions(c) == UNION {{i} \X DOMAIN c.clients[i].services : i \in DOMAIN c.clients}
ListenAt(c, e) == c.clients[e[1]].services[e[2]].listen

\* Faulty variant: listen addresses are unique per client only.
UniquePerClient(c) ==
  \A e, f \in Positions(c) : e[1] = f[1] /\ ListenAt(c, e) = ListenAt(c, f) => e = f

\* The map "listens", which spans the clients.
UniqueListens(c) ==
  \A e, f \in Positions(c) : ListenAt(c, e) = ListenAt(c, f) => e = f

ValidEntry(ce) ==
  /\ ce.id # ""
  /\ ce.pubkey # <<>> /\ \A pk \in Members(ce.pubkey) : pk[1] = "ed25519"
  /\ ce.pqPubkey # <<>> /\ \A pk \in Members(ce.pqPubkey) : pk[1] = "mldsa"
  /\ ce.services # <<>>
  /\ Injective([j \in DOMAIN ce.services |-> ce.services[j].name])
  /\ \A s \in Members(ce.services) : s.name # "" /\ s.listen # <<>> /\ Garbage \notin s.cidrs

ServerValidate(c) ==
  /\ c.listen # <<>> /\ c.cert # "" /\ c.key # ""
  /\ c.clients # <<>>
  /\ Injective([i \in DOMAIN c.clients |-> c.clients[i].id])
  /\ \A ce \in Members(c.clients) : ValidEntry(ce)
  /\ UniqueListens(c)
  /\ c.maxStreams >= 1 /\ c.handshake > 0 /\ c.idle > 0 /\ c.heartbeat > 0
  /\ c.heartbeat < c.idle

\* strictUnmarshal: a syntax error or an unknown key.
Decodes(doc) == doc # Err /\ doc.unknown = {}

DecodeEntry(ce) ==
  [ce EXCEPT !.pubkey = StringOrSlice(@), !.pqPubkey = StringOrSlice(@)]

\* LoadServer, if there is no error.
LoadServer(doc) ==
  ServerDefaults([doc EXCEPT !.clients = [i \in DOMAIN @ |-> DecodeEntry(@[i])]])

ServerLoads(doc) ==
  /\ Decodes(doc)
  /\ \A ce \in Members(doc.clients) : NodeDecodes(ce.pubkey) /\ NodeDecodes(ce.pqPubkey)
  /\ ServerValidate(LoadServer(doc))

-----------------------------------------------------------------------------
(* The client's configuration.                                             *)

ClientDefaults(c) ==
  [c EXCEPT !.initialBackoff = OrDefault(@, 1), !.maxBackoff = OrDefault(@, 60)]

\* Faulty variant: the two back-offs are not compared.
ClientValidateUnordered(c) ==
  /\ c.remote # <<>> /\ c.fingerprint[1] \in {"hex", "not hex"} /\ c.id # ""
  /\ \A name \in DOMAIN c.services : c.services[name] # <<>>
  /\ c.initialBackoff > 0 /\ c.maxBackoff > 0

\* The prefix and the length of the fingerprint are checked, its digits not.
ClientValidate(c) ==
  /\ c.remote # <<>>
  /\ c.fingerprint[1] \in {"hex", "not hex"}
  /\ c.id # "" /\ c.privkeyFile # "" /\ c.pqPrivkeyFile # ""
  /\ DOMAIN c.services # {}
  /\ \A name \in DOMAIN c.services : name # "" /\ c.services[name] # <<>>
  /\ c.initialBackoff > 0 /\ c.maxBackoff > 0
  /\ c.maxBackoff >= c.initialBackoff

\* LoadClient, if there is no error.
LoadClient(doc) == ClientDefaults(doc)

ClientLoads(doc) == Decodes(doc) /\ ClientValidate(LoadClient(doc))

-----------------------------------------------------------------------------
(* Keys, certificates and the objects built from a configuration.          *)

\* A public key is named like its private key.
EncodePubkey(k) == <<"ed25519", k>>
EncodePQPubkey(k) == <<"mldsa", k>>

DecodePubkey(txt) == IF txt[1] = "ed25519" /\ txt[2] # Garbage THEN txt[2] ELSE Err
DecodePQPubkey(txt) == IF txt[1] = "mldsa" /\ txt[2] # Garbage THEN txt[2] ELSE Err

\* PEM files with the seed of the key.
PrivkeyPEM(k) == <<"ed25519", k>>
PQPrivkeyPEM(k) == <<"mldsa", k>>

LoadPrivkeyPEM(file) ==
  IF file # Err /\ file[1] = "ed25519" /\ file[2] # Garbage THEN file[2] ELSE Err
LoadPQPrivkeyPEM(file) ==
  IF file # Err /\ file[1] = "mldsa" /\ file[2] # Garbage THEN file[2] ELSE Err

ParseFingerprint(fp) == IF fp[1] = "hex" THEN fp[2] ELSE Err

\* What the client pins is the hash of the certificate, named like its key.
FingerprintFromCertFile(file) ==
  IF file # Err /\ file[1] = "CERTIFICATE" /\ file[2] # Garbage THEN <<"hex", file[2]>> ELSE Err

\* tls.LoadX509KeyPair: the two files belong together.
ServerTLSConfig(cert, key) ==
  IF /\ Err \notin {cert, key}
     /\ cert = <<"CERTIFICATE", key[2]>> /\ key[1] = "PRIVATE KEY" /\ key[2] # Garbage
  THEN cert[2] ELSE Err

\* Faulty variant: only the first key of a list is taken.
FirstKey(keys) == {keys[1]}

\* The decoded keys of an entry.
AllKeys(keys) == Members(keys)

\* A later entry of a Go map literal loop overwrites an earlier one.
LastOf(seq, set) ==
  seq[CHOOSE i \in DOMAIN seq : seq[i] \in set /\ \A j \in DOMAIN seq : seq[j] \in set => j <= i]

Names(services) == {s.name : s \in Members(services)}
ServiceMap(services) ==
  [name \in Names(services) |->
     LastOf(services, {s \in Members(services) : s.name = name}).listen]

\* The entry of a client, and what NewServer makes of it.
Ids(cfg) == {ce.id : ce \in Members(cfg.clients)}
EntryOf(cfg, id) == LastOf(cfg.clients, {ce \in Members(cfg.clients) : ce.id = id})
PubsOf(ce) == {DecodePubkey(k) : k \in AllKeys(ce.pubkey)}
PQPubsOf(ce) == {DecodePQPubkey(k) : k \in AllKeys(ce.pqPubkey)}

NewServer(cfg, files) ==
  [cfg |-> cfg, cert |-> ServerTLSConfig(files[cfg.cert], files[cfg.key]),
   clientPubs |-> [id \in Ids(cfg) |-> PubsOf(EntryOf(cfg, id))],
   clientPQPubs |-> [id \in Ids(cfg) |-> PQPubsOf(EntryOf(cfg, id))],
   allowed |-> [id \in Ids(cfg) |-> ServiceMap(EntryOf(cfg, id).services)]]

NewServerFails(cfg, files) ==
  \/ ServerTLSConfig(files[cfg.cert], files[cfg.key]) = Err
  \/ \E ce \in Members(cfg.clients) :
       Err \in PubsOf(ce) \/ ce.pqPubkey = <<>> \/ Err \in PQPubsOf(ce)

NewClient(cfg, files) ==
  [cfg |-> cfg, priv |-> LoadPrivkeyPEM(files[cfg.privkeyFile]),
   pqPriv |-> LoadPQPrivkeyPEM(files[cfg.pqPrivkeyFile]),
   pin |-> ParseFingerprint(cfg.fingerprint)]

NewClientFails(cfg, files) ==
  LET c == NewClient(cfg, files) IN Err \in {c.priv, c.pqPriv, c.pin}

\* "passage server" and "passage client" start from these files, and as what.
ServerStarts(files) ==
  LET doc == files["server.yaml"] IN ServerLoads(doc) /\ ~NewServerFails(LoadServer(doc), files)
ClientStarts(files) ==
  LET doc == files["client.yaml"] IN ClientLoads(doc) /\ ~NewClientFails(LoadClient(doc), files)

ServerFrom(files) == NewServer(LoadServer(files["server.yaml"]), files)
ClientFrom(files) == NewClient(LoadClient(files["client.yaml"]), files)

\* The handshake between the two succeeds: clientTLSConfig's pin, validateAuth.
Accepts(s, c) ==
  /\ c.pin = s.cert
  /\ c.cfg.id \in DOMAIN s.allowed
  /\ c.priv \in s.clientPubs[c.cfg.id] /\ c.pqPriv \in s.clientPQPubs[c.cfg.id]
  /\ DOMAIN c.cfg.services \subseteq DOMAIN s.allowed[c.cfg.id]

-----------------------------------------------------------------------------
ConfigInit == disk = InitialDisk /\ server = Err /\ client = Err

Edit(p, content) == disk' = [disk EXCEPT ![p] = content] /\ UNCHANGED <<server, client>>

\* runServer and runClient end with an error if anything is wrong.
StartServer == server' = IF ServerStarts(disk) THEN ServerFrom(disk) ELSE Err
StartClient == client' = IF ClientStarts(disk) THEN ClientFrom(disk) ELSE Err

RunServer == server = Err /\ StartServer /\ UNCHANGED <<disk, client>>
RunClient == client = Err /\ StartClient /\ UNCHANGED <<disk, server>>

ServerExits == server # Err /\ server' = Err /\ UNCHANGED <<disk, client>>
ClientExits == client # Err /\ client' = Err /\ UNCHANGED <<disk, server>>

Processes == RunServer \/ RunClient \/ ServerExits \/ ClientExits

ConfigNext == Processes \/ \E p \in DOMAIN Edits : \E x \in Edits[p] : Edit(p, x)

ConfigSpec == ConfigInit /\ [][ConfigNext]_configVars

-----------------------------------------------------------------------------
\* What the other modules assume of a server: no entry of the file is shadowed
\* in the maps of NewServer, no two services were given one address, each client
\* has keys of both kinds, a keep-alive is due before a write times out, and
\* streamSem has a token.
ServerUsable(s) ==
  LET addresses == UNION {{id} \X DOMAIN s.allowed[id] : id \in DOMAIN s.allowed}
  IN  /\ addresses # {}
      /\ \A ce \in Members(s.cfg.clients) : \A svc \in Members(ce.services) :
           s.allowed[ce.id][svc.name] = svc.listen
      /\ \A x, y \in addresses : s.allowed[x[1]][x[2]] = s.allowed[y[1]][y[2]] => x = y
      /\ \A id \in DOMAIN s.allowed : {} \notin {s.clientPubs[id], s.clientPQPubs[id]}
      /\ s.cfg.maxStreams \in Nat \ {0}
      /\ 0 < s.cfg.heartbeat /\ s.cfg.heartbeat < s.cfg.idle

\* What they assume of a client: a back-off that ClientLoop can start with, a pin
\* that some certificate can match, and a target for every service it requests.
ClientUsable(c) ==
  /\ 0 < c.cfg.initialBackoff /\ c.cfg.initialBackoff <= c.cfg.maxBackoff
  /\ Err \notin {c.pin, c.priv, c.pqPriv}
  /\ \A name \in DOMAIN c.cfg.services : c.cfg.services[name] # <<>>

\* Whatever the operator wrote, and whenever, a server that runs is usable.
RunningServerUsable == server # Err => ServerUsable(server)

\* The same for a client that runs.
RunningClientUsable == client # Err => ClientUsable(client)

=============================================================================
