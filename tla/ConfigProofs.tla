---------------------------- MODULE ConfigProofs ----------------------------
(***************************************************************************)
(* What starts is usable, for every content of the files that the decoder  *)
(* can make sense of.                                                      *)
(***************************************************************************)
EXTENDS Rotation, TLAPS

\* The configuration of a server after decoding.
LoadedEntry ==
  [id : Text, pubkey : Seq(KeyText), pqPubkey : Seq(KeyText), services : Seq(ServiceEntry)]
ServerConfig ==
  [unknown : SUBSET Text, listen : Address, cert : Text, key : Text,
   clients : Seq(LoadedEntry), maxStreams : Int, handshake : Int, idle : Int, heartbeat : Int]

-----------------------------------------------------------------------------
(* Decoding.                                                               *)

\* UnmarshalYAML makes a list of keys of a node it accepts.
LEMMA StringOrSliceType ==
  ASSUME NEW node \in YamlNode, NodeDecodes(node)
  PROVE  StringOrSlice(node) \in Seq(KeyText)
<1>1. CASE node[1] = "scalar"
  <2>1. node[2] \in KeyText
    BY <1>1 DEF YamlNode
  <2> QED
    BY <1>1, <2>1 DEF StringOrSlice
<1>2. CASE node[1] = "seq"
  <2>1. node[2] \in Seq(KeyText)
    BY <1>2 DEF YamlNode
  <2> QED
    BY <1>2, <2>1 DEF StringOrSlice
<1> QED
  BY <1>1, <1>2 DEF NodeDecodes

\* An entry keeps its id and its services, and its keys become lists.
LEMMA DecodeEntryType ==
  ASSUME NEW ce \in ClientEntry, NodeDecodes(ce.pubkey), NodeDecodes(ce.pqPubkey)
  PROVE  /\ DecodeEntry(ce) \in LoadedEntry
         /\ DecodeEntry(ce).id = ce.id /\ DecodeEntry(ce).services = ce.services
         /\ DecodeEntry(ce).pubkey = StringOrSlice(ce.pubkey)
         /\ DecodeEntry(ce).pqPubkey = StringOrSlice(ce.pqPubkey)
<1>1. ce.pubkey \in YamlNode /\ ce.pqPubkey \in YamlNode
  BY DEF ClientEntry
<1>2. StringOrSlice(ce.pubkey) \in Seq(KeyText) /\ StringOrSlice(ce.pqPubkey) \in Seq(KeyText)
  BY <1>1, StringOrSliceType
<1> QED
  BY <1>2, Zenon DEF DecodeEntry, ClientEntry, LoadedEntry

\* The limits are all that the defaults change.
LEMMA ServerDefaultsType ==
  ASSUME NEW c \in ServerConfig
  PROVE  /\ ServerDefaults(c) \in ServerConfig
         /\ ServerDefaults(c).clients = c.clients
         /\ ServerDefaults(c).cert = c.cert /\ ServerDefaults(c).key = c.key
         /\ ServerDefaults(c).listen = c.listen
         /\ ServerDefaults(c).maxStreams = OrDefault(c.maxStreams, 256)
         /\ ServerDefaults(c).handshake = OrDefault(c.handshake, 10)
         /\ ServerDefaults(c).idle = OrDefault(c.idle, 300)
         /\ ServerDefaults(c).heartbeat = OrDefault(c.heartbeat, 30)
<1>1. PICK m, h, i, b : /\ m = OrDefault(c.maxStreams, 256) /\ h = OrDefault(c.handshake, 10)
                       /\ i = OrDefault(c.idle, 300) /\ b = OrDefault(c.heartbeat, 30)
  OBVIOUS
<1>2. m \in Int /\ h \in Int /\ i \in Int /\ b \in Int
  BY <1>1 DEF ServerConfig, OrDefault
<1>3. PICK d : d = [c EXCEPT !.maxStreams = m, !.handshake = h, !.idle = i, !.heartbeat = b]
  OBVIOUS
<1>4. /\ d.unknown = c.unknown /\ d.listen = c.listen /\ d.cert = c.cert /\ d.key = c.key
      /\ d.clients = c.clients
  BY <1>3 DEF ServerConfig
<1>5. d.maxStreams = m /\ d.handshake = h /\ d.idle = i /\ d.heartbeat = b
  BY <1>3 DEF ServerConfig
<1>6. d = [unknown |-> c.unknown, listen |-> c.listen, cert |-> c.cert, key |-> c.key,
           clients |-> c.clients, maxStreams |-> m, handshake |-> h, idle |-> i, heartbeat |-> b]
  BY <1>3, <1>4, <1>5, Zenon DEF ServerConfig
<1>7. d \in ServerConfig
  BY <1>2, <1>6 DEF ServerConfig
<1>8. ServerDefaults(c) = d
  BY <1>1, <1>3, Zenon DEF ServerDefaults
<1> QED
  BY <1>1, <1>4, <1>5, <1>7, <1>8

\* The configuration of a file that decodes, field by field.
LEMMA LoadServerType ==
  ASSUME NEW doc \in ServerFile,
         \A ce \in Members(doc.clients) : NodeDecodes(ce.pubkey) /\ NodeDecodes(ce.pqPubkey)
  PROVE  /\ LoadServer(doc) \in ServerConfig
         /\ DOMAIN LoadServer(doc).clients = DOMAIN doc.clients
         /\ \A i \in DOMAIN doc.clients : LoadServer(doc).clients[i] = DecodeEntry(doc.clients[i])
         /\ LoadServer(doc).cert = doc.cert /\ LoadServer(doc).key = doc.key
         /\ LoadServer(doc).listen = doc.listen
         /\ LoadServer(doc).maxStreams = OrDefault(doc.maxStreams, 256)
         /\ LoadServer(doc).handshake = OrDefault(doc.handshake, 10)
         /\ LoadServer(doc).idle = OrDefault(doc.idle, 300)
         /\ LoadServer(doc).heartbeat = OrDefault(doc.heartbeat, 30)
<1> DEFINE cs == [i \in DOMAIN doc.clients |-> DecodeEntry(doc.clients[i])]
           d == [doc EXCEPT !.clients = cs]
<1>1. doc.clients \in Seq(ClientEntry)
  BY DEF ServerFile
<1>2. \A i \in DOMAIN doc.clients : DecodeEntry(doc.clients[i]) \in LoadedEntry
  <2> TAKE i \in DOMAIN doc.clients
  <2>1. doc.clients[i] \in ClientEntry /\ doc.clients[i] \in Members(doc.clients)
    BY <1>1 DEF Members
  <2> QED
    BY <2>1, DecodeEntryType
<1>3. cs \in Seq(LoadedEntry) /\ DOMAIN cs = DOMAIN doc.clients
  BY <1>1, <1>2
<1> HIDE DEF cs
<1>4. /\ d \in ServerConfig /\ d.clients = cs /\ d.cert = doc.cert /\ d.key = doc.key
      /\ d.listen = doc.listen /\ d.maxStreams = doc.maxStreams /\ d.handshake = doc.handshake
      /\ d.idle = doc.idle /\ d.heartbeat = doc.heartbeat
  BY <1>3 DEF ServerFile, ServerConfig
<1>5. LoadServer(doc) = ServerDefaults(d)
  BY DEF LoadServer, cs
<1> HIDE DEF d
<1> QED
  BY <1>3, <1>4, <1>5, ServerDefaultsType DEF cs

-----------------------------------------------------------------------------
(* The maps of NewServer.                                                  *)

\* What only one position of the list is, is the last.
LEMMA LastOfOnly ==
  ASSUME NEW S, NEW seq \in Seq(S), NEW set, NEW i \in DOMAIN seq, seq[i] \in set,
         \A j \in DOMAIN seq : seq[j] \in set => j = i
  PROVE  LastOf(seq, set) = seq[i]
<1> DEFINE Last(k) == seq[k] \in set /\ \A j \in DOMAIN seq : seq[j] \in set => j <= k
<1>1. Last(i)
  OBVIOUS
<1>2. \A k \in DOMAIN seq : Last(k) => k = i
  OBVIOUS
<1>3. (CHOOSE k \in DOMAIN seq : Last(k)) = i
  BY <1>1, <1>2
<1> QED
  BY <1>3 DEF LastOf

\* With distinct names no service is shadowed in the map of a client.
LEMMA ServiceMapExact ==
  ASSUME NEW services \in Seq(ServiceEntry),
         Injective([j \in DOMAIN services |-> services[j].name])
  PROVE  /\ DOMAIN ServiceMap(services) = Names(services)
         /\ \A j \in DOMAIN services : ServiceMap(services)[services[j].name] = services[j].listen
<1>1. DOMAIN ServiceMap(services) = Names(services)
  BY DEF ServiceMap
<1>2. ASSUME NEW j \in DOMAIN services
      PROVE  ServiceMap(services)[services[j].name] = services[j].listen
  <2> DEFINE set == {s \in Members(services) : s.name = services[j].name}
  <2>1. services[j] \in Members(services) /\ services[j].name \in Names(services)
    BY DEF Members, Names
  <2>2. services[j] \in set
    BY <2>1
  <2>3. \A k \in DOMAIN services : services[k] \in set => k = j
    BY DEF Injective
  <2>4. LastOf(services, set) = services[j]
    <3> HIDE DEF set
    <3> QED BY <2>2, <2>3, LastOfOnly
  <2> QED
    BY <2>1, <2>4, Zenon DEF ServiceMap
<1> QED
  BY <1>1, <1>2

\* With distinct ids no entry is shadowed in the maps of the server.
LEMMA EntryOfExact ==
  ASSUME NEW c \in ServerConfig, Injective([i \in DOMAIN c.clients |-> c.clients[i].id]),
         NEW i \in DOMAIN c.clients
  PROVE  EntryOf(c, c.clients[i].id) = c.clients[i] /\ c.clients[i].id \in Ids(c)
<1> DEFINE set == {ce \in Members(c.clients) : ce.id = c.clients[i].id}
<1>0. c.clients \in Seq(LoadedEntry)
  BY DEF ServerConfig
<1>1. c.clients[i] \in Members(c.clients)
  BY DEF Members
<1>2. c.clients[i] \in set
  BY <1>1
<1>3. \A k \in DOMAIN c.clients : c.clients[k] \in set => k = i
  BY Zenon DEF Injective
<1>4. LastOf(c.clients, set) = c.clients[i]
  <2> HIDE DEF set
  <2> QED BY <1>0, <1>2, <1>3, LastOfOnly
<1> QED
  BY <1>1, <1>4 DEF EntryOf, Ids

\* What NewServer makes of an entry.
Admits(s, ce) ==
  /\ ce.id \in DOMAIN s.allowed
  /\ s.clientPubs[ce.id] = PubsOf(ce) /\ s.clientPQPubs[ce.id] = PQPubsOf(ce)
  /\ DOMAIN s.allowed[ce.id] = Names(ce.services)
  /\ \A j \in DOMAIN ce.services : s.allowed[ce.id][ce.services[j].name] = ce.services[j].listen

\* It makes it of every entry of a valid configuration.
LEMMA EntryMaps ==
  ASSUME NEW c \in ServerConfig, ServerValidate(c), NEW files, NEW i \in DOMAIN c.clients
  PROVE  Admits(NewServer(c, files), c.clients[i])
<1>0. PICK s, ce : s = NewServer(c, files) /\ ce = c.clients[i]
  OBVIOUS
<1>1. EntryOf(c, ce.id) = ce /\ ce.id \in Ids(c)
  BY <1>0, EntryOfExact, Zenon DEF ServerValidate
<1>2. ce \in LoadedEntry /\ ce \in Members(c.clients)
  BY <1>0 DEF ServerConfig, Members
<1>3. /\ ce.services \in Seq(ServiceEntry)
      /\ Injective([j \in DOMAIN ce.services |-> ce.services[j].name])
  BY <1>2, Zenon DEF LoadedEntry, ServerValidate, ValidEntry
<1>4. /\ DOMAIN ServiceMap(ce.services) = Names(ce.services)
      /\ \A j \in DOMAIN ce.services :
           ServiceMap(ce.services)[ce.services[j].name]
             = ce.services[j].listen
  BY <1>3, ServiceMapExact
<1>5. Admits(s, ce)
  BY <1>0, <1>1, <1>4, Zenon DEF NewServer, Admits
<1> QED
  BY <1>0, <1>5

\* What validates is usable, whatever the other files hold.
LEMMA ValidServerUsable ==
  ASSUME NEW c \in ServerConfig, ServerValidate(c), NEW files
  PROVE  ServerUsable(NewServer(c, files))
<1>b. PICK s : s = NewServer(c, files)
  OBVIOUS
<1> DEFINE addresses == UNION {{id} \X DOMAIN s.allowed[id] : id \in DOMAIN s.allowed}
<1>1. s.cfg = c /\ DOMAIN s.allowed = {ce.id : ce \in Members(c.clients)}
  BY <1>b DEF NewServer, Ids
<1>2. c.clients \in Seq(LoadedEntry) /\ c.clients # <<>>
  BY Zenon DEF ServerConfig, ServerValidate
<1>a. \A ce \in Members(c.clients) : ValidEntry(ce)
  BY Zenon DEF ServerValidate
<1>3. \A id \in DOMAIN s.allowed : \E i \in DOMAIN c.clients : c.clients[i].id = id
  BY <1>1 DEF Members
<1>4. ASSUME NEW i \in DOMAIN c.clients
      PROVE  /\ c.clients[i].id \in DOMAIN s.allowed
             /\ s.clientPubs[c.clients[i].id] = PubsOf(c.clients[i])
             /\ s.clientPQPubs[c.clients[i].id] = PQPubsOf(c.clients[i])
             /\ DOMAIN s.allowed[c.clients[i].id] = Names(c.clients[i].services)
             /\ \A j \in DOMAIN c.clients[i].services :
                  s.allowed[c.clients[i].id][c.clients[i].services[j].name]
                    = c.clients[i].services[j].listen
             /\ c.clients[i] \in LoadedEntry /\ ValidEntry(c.clients[i])
  <2>1. c.clients[i] \in LoadedEntry /\ ValidEntry(c.clients[i])
    BY <1>2, <1>a DEF Members
  <2>2. Admits(s, c.clients[i])
    BY <1>b, EntryMaps
  <2> QED
    BY <2>1, <2>2, Zenon DEF Admits
<1>5. \A x \in addresses : \E e \in Positions(c) :
        /\ x = <<c.clients[e[1]].id, c.clients[e[1]].services[e[2]].name>>
        /\ s.allowed[x[1]][x[2]] = ListenAt(c, e)
  <2> TAKE x \in addresses
  <2>1. PICK id \in DOMAIN s.allowed : x \in {id} \X DOMAIN s.allowed[id]
    OBVIOUS
  <2>2. PICK i \in DOMAIN c.clients : c.clients[i].id = id
    BY <1>3
  <2>3. PICK j \in DOMAIN c.clients[i].services : c.clients[i].services[j].name = x[2]
    <3>1. x[2] \in DOMAIN s.allowed[c.clients[i].id]
      BY <2>1, <2>2
    <3>2. x[2] \in Names(c.clients[i].services)
      BY <3>1, <1>4, Zenon
    <3> QED
      BY <3>2 DEF Members, Names
  <2>4. <<i, j>> \in Positions(c)
    BY DEF Positions
  <2>5. x = <<c.clients[i].id, c.clients[i].services[j].name>>
    BY <2>1, <2>2, <2>3
  <2>6. s.allowed[x[1]][x[2]] = ListenAt(c, <<i, j>>)
    BY <1>4, <2>5, Zenon DEF ListenAt
  <2> QED
    BY <2>4, <2>5, <2>6, Zenon
<1>6. \A x, y \in addresses : s.allowed[x[1]][x[2]] = s.allowed[y[1]][y[2]] => x = y
  <2> TAKE x, y \in addresses
  <2> HAVE s.allowed[x[1]][x[2]] = s.allowed[y[1]][y[2]]
  <2> HIDE DEF addresses
  <2>1. PICK e \in Positions(c) : 
          /\ x = <<c.clients[e[1]].id, c.clients[e[1]].services[e[2]].name>>
          /\ s.allowed[x[1]][x[2]] = ListenAt(c, e)
    BY <1>5
  <2>2. PICK f \in Positions(c) : 
          /\ y = <<c.clients[f[1]].id, c.clients[f[1]].services[f[2]].name>>
          /\ s.allowed[y[1]][y[2]] = ListenAt(c, f)
    BY <1>5
  <2>3. e = f
    BY <2>1, <2>2, Zenon DEF ServerValidate, UniqueListens
  <2> QED
    BY <2>1, <2>2, <2>3, Zenon
<1>7. addresses # {}
  <2>1. 1 \in DOMAIN c.clients
    BY <1>2
  <2>2. c.clients[1].services \in Seq(ServiceEntry) /\ c.clients[1].services # <<>>
    BY <1>4, <2>1, Zenon DEF LoadedEntry, ValidEntry
  <2>3. c.clients[1].services[1] \in Members(c.clients[1].services)
    BY <2>2 DEF Members
  <2>4. c.clients[1].services[1].name \in DOMAIN s.allowed[c.clients[1].id]
    BY <1>4, <2>1, <2>3 DEF Names
  <2>5. <<c.clients[1].id, c.clients[1].services[1].name>> \in addresses
    <3>1. c.clients[1].id \in DOMAIN s.allowed
      BY <1>4, <2>1
    <3> QED
      BY <2>4, <3>1
  <2> QED
    BY <2>5
<1>8. \A ce \in Members(c.clients) : \A svc \in Members(ce.services) :
        s.allowed[ce.id][svc.name] = svc.listen
  BY <1>4 DEF Members
<1>9. \A id \in DOMAIN s.allowed : {} \notin {s.clientPubs[id], s.clientPQPubs[id]}
  <2> TAKE id \in DOMAIN s.allowed
  <2>1. PICK i \in DOMAIN c.clients : c.clients[i].id = id
    BY <1>3
  <2>2. /\ c.clients[i].pubkey \in Seq(KeyText) /\ c.clients[i].pubkey # <<>>
        /\ c.clients[i].pqPubkey \in Seq(KeyText) /\ c.clients[i].pqPubkey # <<>>
    BY <1>4, Zenon DEF LoadedEntry, ValidEntry
  <2>3. /\ c.clients[i].pubkey[1] \in Members(c.clients[i].pubkey)
        /\ c.clients[i].pqPubkey[1] \in Members(c.clients[i].pqPubkey)
    BY <2>2 DEF Members
  <2>4. /\ s.clientPubs[id] = PubsOf(c.clients[i])
        /\ s.clientPQPubs[id] = PQPubsOf(c.clients[i])
    BY <1>4, <2>1
  <2> QED
    BY <2>3, <2>4 DEF PubsOf, PQPubsOf, AllKeys
<1>10. /\ c.maxStreams \in Nat \ {0}
       /\ 0 < c.heartbeat /\ c.heartbeat < c.idle
  <2>1. c.maxStreams \in Int /\ c.heartbeat \in Int /\ c.idle \in Int
    BY DEF ServerConfig
  <2>2. c.maxStreams >= 1 /\ c.heartbeat > 0 /\ c.heartbeat < c.idle
    BY Zenon DEF ServerValidate
  <2> QED
    BY <2>1, <2>2
<1>11. ServerUsable(s)
  BY <1>1, <1>6, <1>7, <1>8, <1>9, <1>10, Zenon DEF ServerUsable
<1> QED
  BY <1>b, <1>11

-----------------------------------------------------------------------------
(* Editing and starting.                                                   *)

\* The files are never of another kind than their names say.
FilesTyped ==
  /\ DOMAIN disk = DOMAIN InitialDisk
  /\ \A p \in DOMAIN disk : Content(p, disk[p])

ConfigInv == FilesTyped /\ RunningServerUsable /\ RunningClientUsable

\* A server that starts from files of the right kind is usable.
LEMMA StartedServerUsable ==
  ASSUME FilesTyped, ServerStarts(disk)
  PROVE  ServerUsable(ServerFrom(disk))
<1>1. "server.yaml" \in DOMAIN disk
  BY FilesAssumption DEF FilesTyped
<1>2. disk["server.yaml"] \in ServerFile
  BY <1>1 DEF FilesTyped, Content, ServerStarts, ServerLoads, Decodes
<1>3. ServerLoads(disk["server.yaml"])
  BY DEF ServerStarts
<1>4. LoadServer(disk["server.yaml"]) \in ServerConfig
  BY <1>2, <1>3, LoadServerType DEF ServerLoads
<1>5. ServerValidate(LoadServer(disk["server.yaml"]))
  BY <1>3 DEF ServerLoads
<1> QED
  BY <1>4, <1>5, ValidServerUsable DEF ServerFrom

\* The back-offs are all that the defaults change.
LEMMA LoadClientType ==
  ASSUME NEW names, NEW doc \in ClientFile(names)
  PROVE  /\ LoadClient(doc) \in ClientFile(names)
         /\ LoadClient(doc).services = doc.services /\ LoadClient(doc).id = doc.id
         /\ LoadClient(doc).fingerprint = doc.fingerprint
         /\ LoadClient(doc).privkeyFile = doc.privkeyFile
         /\ LoadClient(doc).pqPrivkeyFile = doc.pqPrivkeyFile
<1>1. PICK i, m : i = OrDefault(doc.initialBackoff, 1) /\ m = OrDefault(doc.maxBackoff, 60)
  OBVIOUS
<1>2. i \in Int /\ m \in Int
  BY <1>1 DEF ClientFile, OrDefault
<1>3. PICK d : d = [doc EXCEPT !.initialBackoff = i, !.maxBackoff = m]
  OBVIOUS
<1>4. /\ d \in ClientFile(names)
      /\ d.services = doc.services /\ d.id = doc.id /\ d.fingerprint = doc.fingerprint
      /\ d.privkeyFile = doc.privkeyFile /\ d.pqPrivkeyFile = doc.pqPrivkeyFile
  BY <1>2, <1>3, Zenon DEF ClientFile
<1>5. LoadClient(doc) = d
  BY <1>1, <1>3, Zenon DEF LoadClient, ClientDefaults
<1> QED
  BY <1>4, <1>5

\* A client that starts from files of the right kind is usable.
LEMMA StartedClientUsable ==
  ASSUME FilesTyped, ClientStarts(disk)
  PROVE  ClientUsable(ClientFrom(disk))
<1>1. "client.yaml" \in DOMAIN disk
  BY FilesAssumption DEF FilesTyped
<1>2. PICK doc : doc = disk["client.yaml"]
  OBVIOUS
<1>3. ClientLoads(doc) /\ ~NewClientFails(LoadClient(doc), disk)
  BY <1>2 DEF ClientStarts
<1>4. Content("client.yaml", doc)
  BY <1>1, <1>2 DEF FilesTyped
<1>5. doc \in ClientFile(DOMAIN doc.services)
  BY <1>3, <1>4 DEF Content, ClientLoads, Decodes
<1>6. PICK cfg : cfg = LoadClient(doc)
  OBVIOUS
<1>7. cfg.initialBackoff \in Int /\ cfg.maxBackoff \in Int
  BY <1>5, <1>6, LoadClientType DEF ClientFile
<1>8. ClientValidate(cfg)
  BY <1>3, <1>6 DEF ClientLoads
<1>9. 0 < cfg.initialBackoff /\ cfg.initialBackoff <= cfg.maxBackoff
  BY <1>7, <1>8, Zenon DEF ClientValidate
<1>10. PICK c : c = NewClient(cfg, disk)
  OBVIOUS
<1>11. c.cfg = cfg /\ Err \notin {c.pin, c.priv, c.pqPriv}
  BY <1>3, <1>6, <1>10 DEF NewClientFails, NewClient
<1>12. ClientUsable(c)
  BY <1>8, <1>9, <1>11, Zenon DEF ClientUsable, ClientValidate
<1> QED
  BY <1>2, <1>6, <1>10, <1>12 DEF ClientFrom

\* Starting and stopping the processes keeps them usable.
LEMMA ProcessesKeepUsable ==
  ASSUME ConfigInv, Processes
  PROVE  ConfigInv'
<1> USE DEF ConfigInv
<1>1. disk' = disk
  BY DEF Processes, RunServer, RunClient, ServerExits, ClientExits
<1>2. FilesTyped'
  BY <1>1 DEF FilesTyped
<1>3. RunningServerUsable'
  <2>1. CASE RunServer
    BY <2>1, StartedServerUsable DEF RunServer, StartServer, RunningServerUsable
  <2>2. CASE ~RunServer
    <3>1. server' = server \/ server' = Err
      BY <2>2 DEF Processes, RunClient, ServerExits, ClientExits
    <3> QED
      BY <3>1 DEF RunningServerUsable
  <2> QED
    BY <2>1, <2>2
<1>4. RunningClientUsable'
  <2>1. CASE RunClient
    BY <2>1, StartedClientUsable DEF RunClient, StartClient, RunningClientUsable
  <2>2. CASE ~RunClient
    <3>1. client' = client \/ client' = Err
      BY <2>2 DEF Processes, RunServer, ServerExits, ClientExits
    <3> QED
      BY <3>1 DEF RunningClientUsable
  <2> QED
    BY <2>1, <2>2
<1> QED
  BY <1>2, <1>3, <1>4

\* Editing files and starting and stopping processes keeps the invariant.
LEMMA ConfigInvariance == ConfigSpec => []ConfigInv
<1>1. ConfigInit => ConfigInv
  BY FilesAssumption DEF ConfigInit, ConfigInv, FilesTyped, RunningServerUsable, RunningClientUsable
<1>2. ConfigInv /\ [ConfigNext]_configVars => ConfigInv'
  <2> SUFFICES ASSUME ConfigInv, [ConfigNext]_configVars PROVE ConfigInv'
    OBVIOUS
  <2>1. CASE Processes
    BY <2>1, ProcessesKeepUsable
  <2>2. ASSUME NEW p \in DOMAIN Edits, NEW x \in Edits[p], Edit(p, x) PROVE ConfigInv'
    <3>1. Content(p, x)
      BY FilesAssumption
    <3>2. FilesTyped'
      BY <2>2, <3>1 DEF ConfigInv, FilesTyped, Edit
    <3> QED
      BY <2>2, <3>2 DEF ConfigInv, RunningServerUsable, RunningClientUsable, Edit
  <2>3. CASE UNCHANGED configVars
    BY <2>3 DEF configVars, ConfigInv, FilesTyped, RunningServerUsable, RunningClientUsable
  <2> QED
    BY <2>1, <2>2, <2>3 DEF ConfigNext
<1> QED
  BY <1>1, <1>2, PTL DEF ConfigSpec

\* Whatever the operator writes to the files, and whenever the processes are
\* started and stopped, a server that runs is usable.
THEOREM ServersAreUsable == ConfigSpec => []RunningServerUsable
<1>1. ConfigInv => RunningServerUsable
  BY DEF ConfigInv
<1> QED
  BY <1>1, ConfigInvariance, PTL

\* So is a client that runs.
THEOREM ClientsAreUsable == ConfigSpec => []RunningClientUsable
<1>1. ConfigInv => RunningClientUsable
  BY DEF ConfigInv
<1> QED
  BY <1>1, ConfigInvariance, PTL

-----------------------------------------------------------------------------
(* Rotation: what the files hold, up to the keys.                          *)

Doc0 == InitialDisk["server.yaml"]
Clt0 == InitialDisk["client.yaml"]
Cert0 == ServerTLSConfig(InitialDisk[Doc0.cert], InitialDisk[Doc0.key])

\* One or two keys.
KeyList == {<<a>> : a \in Nat} \cup (Nat \X Nat)

EdNode(eds) == Node([i \in DOMAIN eds |-> EncodePubkey(eds[i])])
PQNode(pqs) == Node([i \in DOMAIN pqs |-> EncodePQPubkey(pqs[i])])

\* doc is the first server.yaml with these keys of the client.
Lists(doc, eds, pqs) ==
  /\ doc \in ServerFile
  /\ doc.unknown = Doc0.unknown /\ doc.listen = Doc0.listen
  /\ doc.cert = Doc0.cert /\ doc.key = Doc0.key
  /\ doc.maxStreams = Doc0.maxStreams /\ doc.handshake = Doc0.handshake
  /\ doc.idle = Doc0.idle /\ doc.heartbeat = Doc0.heartbeat
  /\ DOMAIN doc.clients = DOMAIN Doc0.clients
  /\ \A i \in DOMAIN doc.clients :
       /\ doc.clients[i].id = Doc0.clients[i].id
       /\ doc.clients[i].services = Doc0.clients[i].services
       /\ i # 1 => doc.clients[i] = Doc0.clients[i]
  /\ doc.clients[1].pubkey = EdNode(eds) /\ doc.clients[1].pqPubkey = PQNode(pqs)

\* doc is the first client.yaml with these key files.
Uses(doc, e, q) ==
  /\ doc \in ClientFile(DOMAIN Clt0.services)
  /\ doc.unknown = Clt0.unknown /\ doc.remote = Clt0.remote
  /\ doc.fingerprint = Clt0.fingerprint /\ doc.id = Clt0.id /\ doc.services = Clt0.services
  /\ doc.initialBackoff = Clt0.initialBackoff /\ doc.maxBackoff = Clt0.maxBackoff
  /\ doc.privkeyFile = EdFile(e) /\ doc.pqPrivkeyFile = PQFile(q)

\* A server that accepts these keys of the client, and a client that has these.
GoodServer(s, eds, pqs) ==
  /\ s.cert = Cert0
  /\ Clt0.id \in DOMAIN s.allowed
  /\ Members(eds) \subseteq s.clientPubs[Clt0.id]
  /\ Members(pqs) \subseteq s.clientPQPubs[Clt0.id]
  /\ DOMAIN Clt0.services \subseteq DOMAIN s.allowed[Clt0.id]
GoodClient(c, e, q) ==
  /\ c.pin = Cert0 /\ c.cfg.id = Clt0.id /\ DOMAIN c.cfg.services = DOMAIN Clt0.services
  /\ c.priv = e /\ c.pqPriv = q

\* They accept each other.
LEMMA GoodAccepts ==
  ASSUME NEW s, NEW c, NEW eds, NEW pqs, NEW e, NEW q, GoodServer(s, eds, pqs), GoodClient(c, e, q),
         e \in Members(eds), q \in Members(pqs)
  PROVE  Accepts(s, c)
  BY DEF GoodServer, GoodClient, Accepts

\* A list of one or two keys, as YAML and back.
LEMMA NodeKeeps ==
  ASSUME NEW keys \in Seq(KeyText), Len(keys) \in {1, 2}
  PROVE  /\ Node(keys) \in YamlNode /\ NodeDecodes(Node(keys))
         /\ StringOrSlice(Node(keys)) \in Seq(KeyText) \ {<<>>}
         /\ Members(StringOrSlice(Node(keys))) = Members(keys)
<1>1. CASE keys[1] = keys[Len(keys)]
  <2>1. Node(keys) = <<"scalar", keys[1]>> /\ keys[1] \in KeyText
    BY <1>1 DEF Node
  <2>2. Node(keys) \in YamlNode /\ NodeDecodes(Node(keys)) /\ StringOrSlice(Node(keys)) = <<keys[1]>>
    BY <2>1 DEF YamlNode, NodeDecodes, StringOrSlice
  <2>3. Members(<<keys[1]>>) = {keys[1]} /\ Members(keys) = {keys[1]}
    BY <1>1 DEF Members
  <2> QED
    BY <2>1, <2>2, <2>3
<1>2. CASE keys[1] # keys[Len(keys)]
  <2>1. Node(keys) = <<"seq", keys>>
    BY <1>2 DEF Node
  <2>2. Node(keys) \in YamlNode /\ NodeDecodes(Node(keys)) /\ StringOrSlice(Node(keys)) = keys
    BY <2>1 DEF YamlNode, NodeDecodes, StringOrSlice
  <2> QED
    BY <2>2
<1> QED
  BY <1>1, <1>2

\* The keys of a list survive encoding and decoding.
LEMMA EdNodeKeeps ==
  ASSUME NEW eds \in KeyList
  PROVE  /\ EdNode(eds) \in YamlNode /\ NodeDecodes(EdNode(eds))
         /\ StringOrSlice(EdNode(eds)) \in Seq(KeyText) \ {<<>>}
         /\ \A pk \in Members(StringOrSlice(EdNode(eds))) : pk[1] = "ed25519"
         /\ {DecodePubkey(pk) : pk \in Members(StringOrSlice(EdNode(eds)))} = Members(eds)
         /\ Err \notin Members(eds)
<1>1. eds \in Seq(Nat) /\ Len(eds) \in {1, 2}
  <2>1. CASE \E a \in Nat : eds = <<a>>
    BY <2>1
  <2>2. CASE eds \in Nat \X Nat
    <3>1. PICK a \in Nat, b \in Nat : eds = <<a, b>>
      BY <2>2
    <3> QED
      BY <3>1
  <2> QED
    BY <2>1, <2>2 DEF KeyList
<1>2. PICK keys : keys = [i \in DOMAIN eds |-> EncodePubkey(eds[i])]
  BY Zenon
<1>3. keys \in Seq(KeyText) /\ Len(keys) \in {1, 2} /\ DOMAIN keys = DOMAIN eds
  <2>1. \A i \in DOMAIN eds : EncodePubkey(eds[i]) \in KeyText
    <3>1. \A k \in Nat : <<"ed25519", k>> \in KeyText
      BY Zenon DEF KeyText, Text
    <3>2. \A i \in DOMAIN eds : eds[i] \in Nat
      BY <1>1
    <3> QED
      BY <3>1, <3>2 DEF EncodePubkey
  <2>2. DOMAIN eds = 1..Len(eds) /\ Len(eds) \in Nat
    BY <1>1
  <2> QED
    BY <1>1, <1>2, <2>1, <2>2
<1>4. EdNode(eds) = Node(keys)
  BY <1>2 DEF EdNode
<1>5. \A i \in DOMAIN eds : keys[i] = <<"ed25519", eds[i]>> /\ eds[i] \in Nat
  BY <1>1, <1>2 DEF EncodePubkey
<1>6. \A i \in DOMAIN eds : DecodePubkey(keys[i]) = eds[i]
  BY <1>5, ErrAssumption DEF DecodePubkey
<1>7. {DecodePubkey(pk) : pk \in Members(keys)} = Members(eds)
  BY <1>3, <1>6 DEF Members
<1>8. \A pk \in Members(keys) : pk[1] = "ed25519"
  BY <1>3, <1>5 DEF Members
<1>9. Err \notin Members(eds)
  BY <1>5, ErrAssumption, Zenon DEF Members
<1> QED
  BY <1>3, <1>4, <1>7, <1>8, <1>9, NodeKeeps

\* The same for ML-DSA.
LEMMA PQNodeKeeps ==
  ASSUME NEW pqs \in KeyList
  PROVE  /\ PQNode(pqs) \in YamlNode /\ NodeDecodes(PQNode(pqs))
         /\ StringOrSlice(PQNode(pqs)) \in Seq(KeyText) \ {<<>>}
         /\ \A pk \in Members(StringOrSlice(PQNode(pqs))) : pk[1] = "mldsa"
         /\ {DecodePQPubkey(pk) : pk \in Members(StringOrSlice(PQNode(pqs)))} = Members(pqs)
         /\ Err \notin Members(pqs)
<1>1. pqs \in Seq(Nat) /\ Len(pqs) \in {1, 2}
  <2>1. CASE \E a \in Nat : pqs = <<a>>
    BY <2>1
  <2>2. CASE pqs \in Nat \X Nat
    <3>1. PICK a \in Nat, b \in Nat : pqs = <<a, b>>
      BY <2>2
    <3> QED
      BY <3>1
  <2> QED
    BY <2>1, <2>2 DEF KeyList
<1>2. PICK keys : keys = [i \in DOMAIN pqs |-> EncodePQPubkey(pqs[i])]
  BY Zenon
<1>3. keys \in Seq(KeyText) /\ Len(keys) \in {1, 2} /\ DOMAIN keys = DOMAIN pqs
  <2>1. \A i \in DOMAIN pqs : EncodePQPubkey(pqs[i]) \in KeyText
    <3>1. \A k \in Nat : <<"mldsa", k>> \in KeyText
      BY Zenon DEF KeyText, Text
    <3>2. \A i \in DOMAIN pqs : pqs[i] \in Nat
      BY <1>1
    <3> QED
      BY <3>1, <3>2 DEF EncodePQPubkey
  <2>2. DOMAIN pqs = 1..Len(pqs) /\ Len(pqs) \in Nat
    BY <1>1
  <2> QED
    BY <1>1, <1>2, <2>1, <2>2
<1>4. PQNode(pqs) = Node(keys)
  BY <1>2 DEF PQNode
<1>5. \A i \in DOMAIN pqs : keys[i] = <<"mldsa", pqs[i]>> /\ pqs[i] \in Nat
  BY <1>1, <1>2 DEF EncodePQPubkey
<1>6. \A i \in DOMAIN pqs : DecodePQPubkey(keys[i]) = pqs[i]
  BY <1>5, ErrAssumption DEF DecodePQPubkey
<1>7. {DecodePQPubkey(pk) : pk \in Members(keys)} = Members(pqs)
  BY <1>3, <1>6 DEF Members
<1>8. \A pk \in Members(keys) : pk[1] = "mldsa"
  BY <1>3, <1>5 DEF Members
<1>9. Err \notin Members(pqs)
  BY <1>5, ErrAssumption, Zenon DEF Members
<1> QED
  BY <1>3, <1>4, <1>7, <1>8, <1>9, NodeKeeps

\* What the first deployment is assumed to be, in the terms of this section.
LEMMA FirstServer ==
  /\ Doc0 \in ServerFile /\ ServerLoads(Doc0)
  /\ Doc0.clients \in Seq(ClientEntry) /\ 1 \in DOMAIN Doc0.clients
  /\ LoadServer(Doc0) \in ServerConfig
  /\ \A i \in DOMAIN Doc0.clients : LoadServer(Doc0).clients[i] = DecodeEntry(Doc0.clients[i])
  /\ ServerValidate(LoadServer(Doc0)) /\ ~NewServerFails(LoadServer(Doc0), InitialDisk)
  /\ Cert0 # Err
  /\ Doc0.clients[1].id = Clt0.id
<1>1. ServerLoads(Doc0) /\ ~NewServerFails(LoadServer(Doc0), InitialDisk)
  BY DeployedAssumption DEF ServerStarts, Doc0
<1>2. Content("server.yaml", Doc0)
  BY FilesAssumption DEF Doc0
<1>3. Doc0 \in ServerFile
  BY <1>1, <1>2 DEF Content, ServerLoads, Decodes
<1>4. /\ LoadServer(Doc0) \in ServerConfig
      /\ DOMAIN LoadServer(Doc0).clients = DOMAIN Doc0.clients
      /\ \A i \in DOMAIN Doc0.clients : LoadServer(Doc0).clients[i] = DecodeEntry(Doc0.clients[i])
      /\ LoadServer(Doc0).cert = Doc0.cert /\ LoadServer(Doc0).key = Doc0.key
  BY <1>1, <1>3, LoadServerType DEF ServerLoads
<1>5. ServerValidate(LoadServer(Doc0))
  BY <1>1 DEF ServerLoads
<1>6. LoadServer(Doc0).clients \in Seq(LoadedEntry) /\ LoadServer(Doc0).clients # <<>>
  BY <1>4, <1>5, Zenon DEF ServerValidate, ServerConfig
<1>7. Doc0.clients \in Seq(ClientEntry)
  BY <1>3 DEF ServerFile
<1>8. 1 \in DOMAIN Doc0.clients
  BY <1>4, <1>6
<1>9. Cert0 # Err
  BY <1>1, <1>4 DEF NewServerFails, Cert0
<1>10. Doc0.clients[1].id = Clt0.id
  BY DeployedAssumption DEF Doc0, Clt0
<1> QED
  BY <1>1, <1>3, <1>4, <1>5, <1>7, <1>8, <1>9, <1>10

\* The client of the first deployment.
LEMMA FirstClient ==
  /\ Clt0 \in ClientFile(DOMAIN Clt0.services) /\ ClientLoads(Clt0)
  /\ ParseFingerprint(Clt0.fingerprint) = Cert0
  /\ DOMAIN Clt0.services \subseteq Names(Doc0.clients[1].services)
<1>1. ClientLoads(Clt0)
  BY DeployedAssumption DEF ClientStarts, Clt0
<1>2. Content("client.yaml", Clt0)
  BY FilesAssumption DEF Clt0
<1>3. Clt0 \in ClientFile(DOMAIN Clt0.services)
  BY <1>1, <1>2 DEF Content, ClientLoads, Decodes
<1>4. PICK s, c : s = ServerFrom(InitialDisk) /\ c = ClientFrom(InitialDisk)
  OBVIOUS
<1>5. Accepts(s, c)
  BY <1>4, DeployedAssumption
<1>6. s = NewServer(LoadServer(Doc0), InitialDisk) /\ c = NewClient(LoadClient(Clt0), InitialDisk)
  BY <1>4 DEF ServerFrom, ClientFrom, Doc0, Clt0
<1>7. /\ c.cfg = LoadClient(Clt0) /\ c.pin = ParseFingerprint(LoadClient(Clt0).fingerprint)
  BY <1>6 DEF NewClient
<1>8. /\ LoadClient(Clt0).fingerprint = Clt0.fingerprint /\ LoadClient(Clt0).id = Clt0.id
      /\ LoadClient(Clt0).services = Clt0.services
  BY <1>3, LoadClientType
<1>9. s.cert = Cert0
  <2>1. LoadServer(Doc0).cert = Doc0.cert /\ LoadServer(Doc0).key = Doc0.key
    BY FirstServer, LoadServerType DEF ServerLoads
  <2> QED
    BY <1>6, <2>1 DEF NewServer, Cert0
<1>10. PICK ce : ce = LoadServer(Doc0).clients[1]
  OBVIOUS
<1>11. DOMAIN LoadServer(Doc0).clients = DOMAIN Doc0.clients
  BY FirstServer, LoadServerType DEF ServerLoads
<1>12. DOMAIN s.allowed[ce.id] = Names(ce.services)
  <2>1. Admits(s, ce)
    BY <1>6, <1>10, <1>11, FirstServer, EntryMaps, Zenon
  <2> QED
    BY <2>1 DEF Admits
<1>13. ce.id = Clt0.id /\ ce.services = Doc0.clients[1].services
  <2>1. Doc0.clients[1] \in ClientEntry /\ Doc0.clients[1] \in Members(Doc0.clients)
    BY FirstServer DEF Members
  <2>2. /\ DecodeEntry(Doc0.clients[1]).id = Doc0.clients[1].id
        /\ DecodeEntry(Doc0.clients[1]).services = Doc0.clients[1].services
    BY <2>1, FirstServer, DecodeEntryType DEF ServerLoads
  <2> QED
    BY <1>10, <2>2, FirstServer
<1> QED
  BY <1>1, <1>3, <1>5, <1>7, <1>8, <1>9, <1>12, <1>13, Zenon DEF Accepts

\* Other keys in the first entry leave the configuration valid.
LEMMA ListsLoads ==
  ASSUME NEW eds \in KeyList, NEW pqs \in KeyList, NEW doc, Lists(doc, eds, pqs)
  PROVE  /\ ServerLoads(doc) /\ LoadServer(doc) \in ServerConfig
         /\ DOMAIN LoadServer(doc).clients = DOMAIN Doc0.clients
         /\ LoadServer(doc).cert = Doc0.cert /\ LoadServer(doc).key = Doc0.key
         /\ \A i \in DOMAIN Doc0.clients \ {1} : LoadServer(doc).clients[i] = LoadServer(Doc0).clients[i]
         /\ LoadServer(doc).clients[1].id = Clt0.id
         /\ LoadServer(doc).clients[1].services = Doc0.clients[1].services
         /\ LoadServer(doc).clients[1].pubkey = StringOrSlice(EdNode(eds))
         /\ LoadServer(doc).clients[1].pqPubkey = StringOrSlice(PQNode(pqs))
<1>1. doc \in ServerFile /\ doc.clients \in Seq(ClientEntry) /\ DOMAIN doc.clients = DOMAIN Doc0.clients
  BY DEF Lists, ServerFile
<1>2. \A i \in DOMAIN Doc0.clients : NodeDecodes(Doc0.clients[i].pubkey) /\ NodeDecodes(Doc0.clients[i].pqPubkey)
  BY FirstServer DEF ServerLoads, Members
<1>3. \A i \in DOMAIN doc.clients : NodeDecodes(doc.clients[i].pubkey) /\ NodeDecodes(doc.clients[i].pqPubkey)
  <2> TAKE i \in DOMAIN doc.clients
  <2>1. CASE i = 1
    BY <2>1, EdNodeKeeps, PQNodeKeeps DEF Lists
  <2>2. CASE i # 1
    BY <1>1, <1>2, <2>2 DEF Lists
  <2> QED
    BY <2>1, <2>2
<1>4. \A ce \in Members(doc.clients) : NodeDecodes(ce.pubkey) /\ NodeDecodes(ce.pqPubkey)
  BY <1>3 DEF Members
<1>5. PICK c, c0 : c = LoadServer(doc) /\ c0 = LoadServer(Doc0)
  OBVIOUS
<1>6. /\ c \in ServerConfig /\ DOMAIN c.clients = DOMAIN doc.clients
      /\ \A i \in DOMAIN doc.clients : c.clients[i] = DecodeEntry(doc.clients[i])
      /\ c.cert = doc.cert /\ c.key = doc.key /\ c.listen = doc.listen
      /\ c.maxStreams = OrDefault(doc.maxStreams, 256) /\ c.handshake = OrDefault(doc.handshake, 10)
      /\ c.idle = OrDefault(doc.idle, 300) /\ c.heartbeat = OrDefault(doc.heartbeat, 30)
  BY <1>1, <1>4, <1>5, LoadServerType
<1>7. /\ c0 \in ServerConfig /\ DOMAIN c0.clients = DOMAIN Doc0.clients
      /\ \A i \in DOMAIN Doc0.clients : c0.clients[i] = DecodeEntry(Doc0.clients[i])
      /\ c0.cert = Doc0.cert /\ c0.key = Doc0.key /\ c0.listen = Doc0.listen
      /\ c0.maxStreams = OrDefault(Doc0.maxStreams, 256) /\ c0.handshake = OrDefault(Doc0.handshake, 10)
      /\ c0.idle = OrDefault(Doc0.idle, 300) /\ c0.heartbeat = OrDefault(Doc0.heartbeat, 30)
  BY <1>5, FirstServer, LoadServerType DEF ServerLoads
<1>8. /\ c.listen = c0.listen /\ c.cert = c0.cert /\ c.key = c0.key /\ c.maxStreams = c0.maxStreams
      /\ c.handshake = c0.handshake /\ c.idle = c0.idle /\ c.heartbeat = c0.heartbeat
  BY <1>6, <1>7 DEF Lists
<1>9. \A i \in DOMAIN Doc0.clients \ {1} : c.clients[i] = c0.clients[i]
  BY <1>1, <1>6, <1>7 DEF Lists
<1>10. ASSUME NEW i \in DOMAIN Doc0.clients
       PROVE  c.clients[i].id = c0.clients[i].id /\ c.clients[i].services = c0.clients[i].services
  <2>1. /\ DecodeEntry(doc.clients[i]).id = doc.clients[i].id
        /\ DecodeEntry(doc.clients[i]).services = doc.clients[i].services
    BY <1>1, <1>3, DecodeEntryType
  <2>2. /\ DecodeEntry(Doc0.clients[i]).id = Doc0.clients[i].id
        /\ DecodeEntry(Doc0.clients[i]).services = Doc0.clients[i].services
    BY <1>2, FirstServer, DecodeEntryType
  <2> QED
    BY <1>1, <1>6, <1>7, <2>1, <2>2 DEF Lists
<1>11. /\ c.clients[1].id = Clt0.id /\ c.clients[1].services = Doc0.clients[1].services
       /\ c.clients[1].pubkey = StringOrSlice(EdNode(eds))
       /\ c.clients[1].pqPubkey = StringOrSlice(PQNode(pqs))
  <2>1. doc.clients[1] \in ClientEntry /\ 1 \in DOMAIN doc.clients
    BY <1>1, FirstServer
  <2>2. /\ DecodeEntry(doc.clients[1]).id = doc.clients[1].id
        /\ DecodeEntry(doc.clients[1]).services = doc.clients[1].services
        /\ DecodeEntry(doc.clients[1]).pubkey = StringOrSlice(doc.clients[1].pubkey)
        /\ DecodeEntry(doc.clients[1]).pqPubkey = StringOrSlice(doc.clients[1].pqPubkey)
    BY <1>3, <2>1, DecodeEntryType
  <2> QED
    BY <1>6, <2>1, <2>2, FirstServer DEF Lists
<1>12. ServerValidate(c0)
  BY <1>5, FirstServer
<1>13. c.clients # <<>>
  BY <1>6, <1>1, FirstServer
<1>14. Injective([i \in DOMAIN c.clients |-> c.clients[i].id])
  <2>1. \A i, j \in DOMAIN c0.clients : c0.clients[i].id = c0.clients[j].id => i = j
    BY <1>12, Zenon DEF ServerValidate, Injective
  <2>2. \A i, j \in DOMAIN c.clients : c.clients[i].id = c.clients[j].id => i = j
    BY <1>1, <1>6, <1>7, <1>10, <2>1
  <2> QED
    BY <2>2 DEF Injective
<1>15. ASSUME NEW i \in DOMAIN c.clients PROVE ValidEntry(c.clients[i])
  <2>1. ValidEntry(c0.clients[i])
    BY <1>1, <1>6, <1>7, <1>12, Zenon DEF ServerValidate, Members
  <2>2. CASE i # 1
    BY <1>1, <1>6, <1>9, <2>1, <2>2
  <2>3. CASE i = 1
    <3>1. /\ c.clients[1].pubkey # <<>> /\ \A pk \in Members(c.clients[1].pubkey) : pk[1] = "ed25519"
          /\ c.clients[1].pqPubkey # <<>> /\ \A pk \in Members(c.clients[1].pqPubkey) : pk[1] = "mldsa"
      BY <1>11, EdNodeKeeps, PQNodeKeeps
    <3>2. c.clients[1].id = c0.clients[1].id /\ c.clients[1].services = c0.clients[1].services
      BY <1>10, FirstServer
    <3> QED
      BY <2>1, <2>3, <3>1, <3>2, Zenon DEF ValidEntry
  <2> QED
    BY <2>2, <2>3
<1>16. UniqueListens(c)
  <2>1. Positions(c) = Positions(c0)
    BY <1>1, <1>6, <1>7, <1>10 DEF Positions
  <2>2. \A e \in Positions(c) : ListenAt(c, e) = ListenAt(c0, e)
    BY <1>1, <1>6, <1>7, <1>10 DEF Positions, ListenAt
  <2> QED
    BY <1>12, <2>1, <2>2, Zenon DEF ServerValidate, UniqueListens
<1>17. ServerValidate(c)
  <2>1. \A ce \in Members(c.clients) : ValidEntry(ce)
    BY <1>15 DEF Members
  <2> QED
    BY <1>8, <1>12, <1>13, <1>14, <1>16, <2>1, Zenon DEF ServerValidate
<1>18. Decodes(doc)
  <2>1. doc # Err
    BY <1>1, ErrAssumption
  <2> QED
    BY <2>1, FirstServer DEF Decodes, Lists, ServerLoads
<1> QED
  BY <1>1, <1>4, <1>5, <1>6, <1>7, <1>8, <1>9, <1>11, <1>17, <1>18 DEF ServerLoads

\* A server starts from such a file, and accepts the keys it lists.
LEMMA ListsStarts ==
  ASSUME NEW eds \in KeyList, NEW pqs \in KeyList, NEW files, Lists(files["server.yaml"], eds, pqs),
         files[Doc0.cert] = InitialDisk[Doc0.cert], files[Doc0.key] = InitialDisk[Doc0.key]
  PROVE  ServerStarts(files) /\ GoodServer(ServerFrom(files), eds, pqs)
<1>1. PICK doc : doc = files["server.yaml"]
  OBVIOUS
<1>2. PICK c : c = LoadServer(doc)
  OBVIOUS
<1>3. /\ ServerLoads(doc) /\ c \in ServerConfig
      /\ DOMAIN c.clients = DOMAIN Doc0.clients
      /\ c.cert = Doc0.cert /\ c.key = Doc0.key
      /\ \A i \in DOMAIN Doc0.clients \ {1} : c.clients[i] = LoadServer(Doc0).clients[i]
      /\ c.clients[1].id = Clt0.id
      /\ c.clients[1].services = Doc0.clients[1].services
      /\ c.clients[1].pubkey = StringOrSlice(EdNode(eds))
      /\ c.clients[1].pqPubkey = StringOrSlice(PQNode(pqs))
  BY <1>1, <1>2, ListsLoads
<1>4. ServerValidate(c)
  BY <1>2, <1>3 DEF ServerLoads
<1>5. ServerTLSConfig(files[c.cert], files[c.key]) = Cert0
  BY <1>3 DEF Cert0
<1>6. PubsOf(c.clients[1]) = Members(eds) /\ PQPubsOf(c.clients[1]) = Members(pqs)
  BY <1>3, EdNodeKeeps, PQNodeKeeps DEF PubsOf, PQPubsOf, AllKeys
<1>7. ASSUME NEW i \in DOMAIN c.clients
      PROVE  /\ Err \notin PubsOf(c.clients[i]) /\ Err \notin PQPubsOf(c.clients[i])
             /\ c.clients[i].pqPubkey # <<>>
  <2>1. CASE i = 1
    BY <1>3, <1>6, <2>1, EdNodeKeeps, PQNodeKeeps
  <2>2. CASE i # 1
    <3>1. c.clients[i] = LoadServer(Doc0).clients[i] /\ i \in DOMAIN Doc0.clients
      BY <1>3, <2>2
    <3>2. DOMAIN LoadServer(Doc0).clients = DOMAIN Doc0.clients
      BY FirstServer, LoadServerType DEF ServerLoads
    <3>3. c.clients[i] \in Members(LoadServer(Doc0).clients)
      BY <3>1, <3>2 DEF Members
    <3> QED
      BY <3>3, FirstServer DEF NewServerFails
  <2> QED
    BY <2>1, <2>2
<1>8. ~NewServerFails(c, files)
  BY <1>5, <1>7, FirstServer DEF NewServerFails, Members
<1>9. PICK s : s = NewServer(c, files)
  OBVIOUS
<1>10. Admits(s, c.clients[1])
  BY <1>3, <1>4, <1>9, FirstServer, EntryMaps, Zenon
<1>11. s.cert = Cert0
  BY <1>5, <1>9 DEF NewServer
<1>12. GoodServer(s, eds, pqs)
  BY <1>3, <1>6, <1>10, <1>11, FirstClient, Zenon DEF GoodServer, Admits
<1> QED
  BY <1>1, <1>2, <1>3, <1>8, <1>9, <1>12 DEF ServerStarts, ServerFrom

\* A client starts from such a file, with the keys in the files it names.
LEMMA UsesStarts ==
  ASSUME NEW e \in Nat, NEW q \in Nat, NEW files, Uses(files["client.yaml"], e, q),
         files[EdFile(e)] = PrivkeyPEM(e), files[PQFile(q)] = PQPrivkeyPEM(q)
  PROVE  ClientStarts(files) /\ GoodClient(ClientFrom(files), e, q)
<1>1. PICK doc : doc = files["client.yaml"]
  OBVIOUS
<1>2. PICK c : c = LoadClient(doc)
  OBVIOUS
<1>3. doc \in ClientFile(DOMAIN Clt0.services)
  BY <1>1 DEF Uses
<1>4. /\ c.services = Clt0.services /\ c.id = Clt0.id /\ c.fingerprint = Clt0.fingerprint
      /\ c.privkeyFile = EdFile(e) /\ c.pqPrivkeyFile = PQFile(q)
  BY <1>1, <1>2, <1>3, LoadClientType DEF Uses
<1>5. PICK c0 : c0 = LoadClient(Clt0)
  OBVIOUS
<1>6. /\ c0.services = Clt0.services /\ c0.id = Clt0.id /\ c0.fingerprint = Clt0.fingerprint
  BY <1>5, FirstClient, LoadClientType
<1>7. c.remote = c0.remote /\ c.initialBackoff = c0.initialBackoff /\ c.maxBackoff = c0.maxBackoff
  BY <1>1, <1>2, <1>3, <1>5, FirstClient DEF Uses, LoadClient, ClientDefaults, ClientFile
<1>8. ClientValidate(c0)
  BY <1>5, FirstClient DEF ClientLoads
<1>9. EdFile(e) # "" /\ PQFile(q) # ""
  BY Zenon DEF EdFile, PQFile
<1>10. ClientValidate(c)
  BY <1>4, <1>6, <1>7, <1>8, <1>9, Zenon DEF ClientValidate
<1>11. ClientLoads(doc)
  <2>1. Decodes(Clt0)
    BY FirstClient DEF ClientLoads
  <2>2. doc.unknown = {}
    BY <1>1, <2>1 DEF Uses, Decodes
  <2>3. doc # Err
    BY <1>3, DeployedAssumption DEF Clt0
  <2> QED
    BY <1>2, <1>10, <2>2, <2>3 DEF ClientLoads, Decodes
<1>12. PICK n : n = NewClient(c, files)
  OBVIOUS
<1>13. n.cfg = c /\ n.priv = e /\ n.pqPriv = q
  <2>1. <<"ed25519", e>> # Err /\ <<"mldsa", q>> # Err
    <3>1. <<"ed25519", e>> \in KeyText /\ <<"mldsa", q>> \in KeyText
      BY Zenon DEF KeyText, Text
    <3> QED
      BY <3>1, ErrAssumption
  <2>2. LoadPrivkeyPEM(PrivkeyPEM(e)) = e /\ LoadPQPrivkeyPEM(PQPrivkeyPEM(q)) = q
    BY <2>1, ErrAssumption DEF LoadPrivkeyPEM, LoadPQPrivkeyPEM, PrivkeyPEM, PQPrivkeyPEM
  <2> QED
    BY <1>4, <1>12, <2>2 DEF NewClient
<1>14. n.pin = Cert0
  BY <1>4, <1>12, FirstClient DEF NewClient
<1>15. Err \notin {n.priv, n.pqPriv, n.pin}
  BY <1>13, <1>14, FirstServer, ErrAssumption
<1> QED
  BY <1>1, <1>2, <1>4, <1>11, <1>12, <1>13, <1>14, <1>15
     DEF ClientStarts, ClientFrom, NewClientFails, GoodClient

-----------------------------------------------------------------------------
(* Rotation: the procedure.                                                *)

\* The old keys are in use, both are listed, the new ones are in use.
Before == {"steady", "one key", "keys"}
Both == {"added", "deployed", "switched", "moved"}
Stages == Before \cup Both \cup {"dropped"}

\* The key files, and those that no step touches.
KeysOnDisk ==
  /\ edKey \in Nat \X Nat /\ edKey[2] \in {edKey[1], edKey[1] + 1}
  /\ pqKey \in Nat \X Nat /\ pqKey[2] \in {pqKey[1], pqKey[1] + 1}
  /\ stage \in Stages
  /\ DOMAIN disk = DOMAIN InitialDisk
  /\ disk[Doc0.cert] = InitialDisk[Doc0.cert] /\ disk[Doc0.key] = InitialDisk[Doc0.key]
  /\ disk[EdFile(edKey[1])] = PrivkeyPEM(edKey[1])
  /\ disk[PQFile(pqKey[1])] = PQPrivkeyPEM(pqKey[1])
  /\ stage # "steady" => disk[EdFile(edKey[2])] = PrivkeyPEM(edKey[2])
  /\ stage \notin {"steady", "one key"} => disk[PQFile(pqKey[2])] = PQPrivkeyPEM(pqKey[2])

\* The two configurations.
ConfigsOnDisk ==
  /\ stage \in Before => Lists(disk["server.yaml"], <<edKey[1]>>, <<pqKey[1]>>)
  /\ stage \in Both => Lists(disk["server.yaml"], edKey, pqKey)
  /\ stage = "dropped" => Lists(disk["server.yaml"], <<edKey[2]>>, <<pqKey[2]>>)
  /\ stage \in Before \cup {"added", "deployed"} => Uses(disk["client.yaml"], edKey[1], pqKey[1])
  /\ stage \in {"switched", "moved", "dropped"} => Uses(disk["client.yaml"], edKey[2], pqKey[2])

\* What runs was started from these files or from the ones before the last step.
ServerRunning ==
  server # Err =>
    /\ stage \in Before \cup {"added"} => GoodServer(server, <<edKey[1]>>, <<pqKey[1]>>)
    /\ stage \in Both \ {"added"} => GoodServer(server, edKey, pqKey)
    /\ stage = "dropped" => GoodServer(server, <<edKey[2]>>, <<pqKey[2]>>)
ClientRunning ==
  client # Err =>
    /\ stage \in Before \cup {"added", "deployed"} => GoodClient(client, edKey[1], pqKey[1])
    /\ stage = "switched" => \/ GoodClient(client, edKey[1], pqKey[1])
                             \/ GoodClient(client, edKey[2], pqKey[2])
    /\ stage \in {"moved", "dropped"} => GoodClient(client, edKey[2], pqKey[2])

RotationInv == KeysOnDisk /\ ConfigsOnDisk /\ ServerRunning /\ ClientRunning

\* The members of short lists.
LEMMA MembersOf ==
  /\ \A a : Members(<<a>>) = {a}
  /\ \A a, b : Members(<<a, b>>) = {a, b}
<1>1. ASSUME NEW a PROVE Members(<<a>>) = {a}
  BY DEF Members
<1>2. ASSUME NEW a, NEW b PROVE Members(<<a, b>>) = {a, b}
  <2>1. DOMAIN <<a, b>> = {1, 2}
    OBVIOUS
  <2> QED
    BY <2>1 DEF Members
<1> QED
  BY <1>1, <1>2

\* The lists of keys that the files and the processes may hold.
LEMMA KeyLists ==
  ASSUME RotationInv
  PROVE  /\ <<edKey[1]>> \in KeyList /\ <<edKey[2]>> \in KeyList /\ edKey \in KeyList
         /\ <<pqKey[1]>> \in KeyList /\ <<pqKey[2]>> \in KeyList /\ pqKey \in KeyList
         /\ edKey[1] \in Nat /\ edKey[2] \in Nat /\ pqKey[1] \in Nat /\ pqKey[2] \in Nat
         /\ Members(<<edKey[1]>>) = {edKey[1]} /\ Members(<<edKey[2]>>) = {edKey[2]}
         /\ Members(<<pqKey[1]>>) = {pqKey[1]} /\ Members(<<pqKey[2]>>) = {pqKey[2]}
         /\ Members(edKey) = {edKey[1], edKey[2]} /\ Members(pqKey) = {pqKey[1], pqKey[2]}
<1>1. edKey \in Nat \X Nat /\ pqKey \in Nat \X Nat
  BY Zenon DEF RotationInv, KeysOnDisk
<1>2. \A p \in Nat \X Nat : p = <<p[1], p[2]>>
  OBVIOUS
<1>3. edKey = <<edKey[1], edKey[2]>> /\ pqKey = <<pqKey[1], pqKey[2]>>
  BY <1>1, <1>2
<1>4. Members(<<edKey[1], edKey[2]>>) = {edKey[1], edKey[2]}
  BY MembersOf
<1>5. Members(<<pqKey[1], pqKey[2]>>) = {pqKey[1], pqKey[2]}
  BY MembersOf
<1>6. Members(edKey) = {edKey[1], edKey[2]} /\ Members(pqKey) = {pqKey[1], pqKey[2]}
  BY <1>3, <1>4, <1>5, Zenon
<1> QED
  BY <1>1, <1>6, MembersOf DEF KeyList

\* What starts in each stage.
LEMMA FreshServer ==
  ASSUME RotationInv
  PROVE  /\ ServerStarts(disk)
         /\ stage \in Before => GoodServer(ServerFrom(disk), <<edKey[1]>>, <<pqKey[1]>>)
         /\ stage \in Both => GoodServer(ServerFrom(disk), edKey, pqKey)
         /\ stage = "dropped" => GoodServer(ServerFrom(disk), <<edKey[2]>>, <<pqKey[2]>>)
<1>1. ASSUME NEW eds \in KeyList, NEW pqs \in KeyList, Lists(disk["server.yaml"], eds, pqs)
      PROVE  ServerStarts(disk) /\ GoodServer(ServerFrom(disk), eds, pqs)
  BY <1>1, ListsStarts, Zenon DEF RotationInv, KeysOnDisk
<1> QED
  BY <1>1, KeyLists, Zenon DEF RotationInv, KeysOnDisk, ConfigsOnDisk, Stages

\* The same for the client.
LEMMA FreshClient ==
  ASSUME RotationInv
  PROVE  /\ ClientStarts(disk)
         /\ stage \in Before \cup {"added", "deployed"} =>
              GoodClient(ClientFrom(disk), edKey[1], pqKey[1])
         /\ stage \in {"switched", "moved", "dropped"} =>
              GoodClient(ClientFrom(disk), edKey[2], pqKey[2])
<1>1. CASE stage \in Before \cup {"added", "deployed"}
  BY <1>1, KeyLists, UsesStarts, Zenon DEF RotationInv, KeysOnDisk, ConfigsOnDisk, Before
<1>2. CASE stage \in {"switched", "moved", "dropped"}
  BY <1>2, KeyLists, UsesStarts, Zenon DEF RotationInv, KeysOnDisk, ConfigsOnDisk, Before
<1> QED
  BY <1>1, <1>2, Zenon DEF RotationInv, KeysOnDisk, Stages, Both

\* A server that accepts both generations accepts each.
LEMMA GoodServerWeaken ==
  ASSUME NEW s, NEW eds, NEW pqs, NEW eds1, NEW pqs1, GoodServer(s, eds, pqs),
         Members(eds1) \subseteq Members(eds), Members(pqs1) \subseteq Members(pqs)
  PROVE  GoodServer(s, eds1, pqs1)
  BY DEF GoodServer

\* In every stage, what starts and what runs accept each other.
LEMMA InvIsRestartSafe ==
  ASSUME RotationInv
  PROVE  RestartSafe
<1>1. ASSUME client # Err PROVE Accepts(ServerFrom(disk), client)
  <2>1. PICK e, q : /\ GoodClient(client, e, q)
                    /\ stage \in Before => e = edKey[1] /\ q = pqKey[1]
                    /\ stage \in Both => <<e, q>> \in {<<edKey[1], pqKey[1]>>, <<edKey[2], pqKey[2]>>}
                    /\ stage = "dropped" => e = edKey[2] /\ q = pqKey[2]
    BY <1>1, Zenon DEF RotationInv, KeysOnDisk, ClientRunning, Stages, Both, Before
  <2>2. stage \in Both => e \in Members(edKey) /\ q \in Members(pqKey)
    BY <2>1, KeyLists
  <2> QED
    BY <2>1, <2>2, KeyLists, FreshServer, GoodAccepts, Zenon DEF RotationInv, KeysOnDisk, Stages
<1>2. ASSUME server # Err PROVE Accepts(server, ClientFrom(disk))
  <2>1. PICK e, q : /\ GoodClient(ClientFrom(disk), e, q)
                    /\ stage \in Before \cup {"added", "deployed"} => e = edKey[1] /\ q = pqKey[1]
                    /\ stage \in {"switched", "moved", "dropped"} => e = edKey[2] /\ q = pqKey[2]
    BY FreshClient, Zenon DEF RotationInv, KeysOnDisk, Stages, Both, Before
  <2>2. PICK eds, pqs : GoodServer(server, eds, pqs) /\ e \in Members(eds) /\ q \in Members(pqs)
    BY <1>2, <2>1, KeyLists, Zenon DEF RotationInv, KeysOnDisk, ServerRunning, Stages, Both, Before
  <2> QED
    BY <2>1, <2>2, GoodAccepts
<1> QED
  BY <1>1, <1>2, FreshServer, FreshClient DEF RestartSafe

\* WithKeys changes the keys of the first entry and nothing else.
LEMMA WithKeysLists ==
  ASSUME NEW eds \in KeyList, NEW pqs \in KeyList, NEW eds0, NEW pqs0, NEW doc, Lists(doc, eds0, pqs0)
  PROVE  Lists(WithKeys(doc, eds, pqs), eds, pqs)
<1>1. doc \in ServerFile /\ doc.clients \in Seq(ClientEntry) /\ 1 \in DOMAIN doc.clients
  BY FirstServer DEF Lists, ServerFile
<1>2. PICK e, q : e = EdNode(eds) /\ q = PQNode(pqs)
  OBVIOUS
<1>3. e \in YamlNode /\ q \in YamlNode
  BY <1>2, EdNodeKeeps, PQNodeKeeps
<1>4. PICK ce : ce = [doc.clients[1] EXCEPT !.pubkey = e, !.pqPubkey = q]
  OBVIOUS
<1>5. doc.clients[1] \in ClientEntry
  BY <1>1
<1>6. /\ ce \in ClientEntry /\ ce.id = doc.clients[1].id /\ ce.services = doc.clients[1].services
      /\ ce.pubkey = e /\ ce.pqPubkey = q
  BY <1>3, <1>4, <1>5, Zenon DEF ClientEntry
<1>7. PICK cs : cs = [doc.clients EXCEPT ![1] = ce]
  BY Zenon
<1>8. cs \in Seq(ClientEntry) /\ DOMAIN cs = DOMAIN doc.clients /\ cs[1] = ce
  BY <1>1, <1>6, <1>7
<1>9. \A i \in DOMAIN doc.clients \ {1} : cs[i] = doc.clients[i]
  BY <1>1, <1>7
<1>10. PICK d : d = [doc EXCEPT !.clients = cs]
  BY Zenon
<1>11. /\ d \in ServerFile /\ d.clients = cs
       /\ d.unknown = doc.unknown /\ d.listen = doc.listen /\ d.cert = doc.cert /\ d.key = doc.key
       /\ d.maxStreams = doc.maxStreams /\ d.handshake = doc.handshake
       /\ d.idle = doc.idle /\ d.heartbeat = doc.heartbeat
  BY <1>1, <1>8, <1>10 DEF ServerFile
<1>12. WithKeys(doc, eds, pqs) = d
  BY <1>2, <1>4, <1>7, <1>10, Zenon DEF WithKeys, EdNode, PQNode
<1>13. \A i \in DOMAIN d.clients :
         /\ d.clients[i].id = Doc0.clients[i].id
         /\ d.clients[i].services = Doc0.clients[i].services
         /\ i # 1 => d.clients[i] = Doc0.clients[i]
  BY <1>6, <1>8, <1>9, <1>11 DEF Lists
<1>14. Lists(d, eds, pqs)
  BY <1>2, <1>6, <1>8, <1>11, <1>13 DEF Lists
<1> QED
  BY <1>12, <1>14

\* Switching the key files changes nothing else.
LEMMA SwitchUses ==
  ASSUME NEW e, NEW q, NEW e0, NEW q0, NEW doc, Uses(doc, e0, q0)
  PROVE  Uses([doc EXCEPT !.privkeyFile = EdFile(e), !.pqPrivkeyFile = PQFile(q)], e, q)
<1>1. PICK f, g : f = EdFile(e) /\ g = PQFile(q)
  OBVIOUS
<1>2. f \in Text /\ g \in Text
  BY <1>1, Zenon DEF EdFile, PQFile, Text
<1>3. PICK d : d = [doc EXCEPT !.privkeyFile = f, !.pqPrivkeyFile = g]
  OBVIOUS
<1>4. /\ d \in ClientFile(DOMAIN Clt0.services) /\ d.privkeyFile = f /\ d.pqPrivkeyFile = g
      /\ d.unknown = doc.unknown /\ d.remote = doc.remote /\ d.fingerprint = doc.fingerprint
      /\ d.id = doc.id /\ d.services = doc.services
      /\ d.initialBackoff = doc.initialBackoff /\ d.maxBackoff = doc.maxBackoff
  BY <1>2, <1>3, Zenon DEF Uses, ClientFile
<1>5. Uses(d, e, q)
  BY <1>1, <1>4 DEF Uses
<1> QED
  BY <1>1, <1>3, <1>5

\* The next key of either kind goes to a file of its own.
LEMMA KeyFilesApart ==
  ASSUME NEW k \in Nat, NEW j \in Nat
  PROVE  /\ EdFile(k + 1) # EdFile(k) /\ PQFile(k + 1) # PQFile(k) /\ EdFile(k) # PQFile(j)
         /\ {EdFile(k), PQFile(j)} \subseteq KeyFiles
         /\ {EdFile(k), PQFile(j)} \subseteq DOMAIN InitialDisk
         /\ {EdFile(k), PQFile(j)} \cap {Doc0.cert, Doc0.key, "server.yaml", "client.yaml"} = {}
<1>1. EdFile(k + 1) # EdFile(k) /\ PQFile(k + 1) # PQFile(k) /\ EdFile(k) # PQFile(j)
  <2>1. (k % 2 = 0) <=> ((k + 1) % 2 # 0)
    OBVIOUS
  <2>2. EdFile(k + 1) # EdFile(k)
    BY <2>1, Zenon DEF EdFile
  <2>3. PQFile(k + 1) # PQFile(k)
    BY <2>1, Zenon DEF PQFile
  <2>4. EdFile(k) # PQFile(j)
    BY Zenon DEF EdFile, PQFile
  <2> QED
    BY <2>2, <2>3, <2>4
<1>2. {EdFile(k), PQFile(j)} \subseteq KeyFiles
  BY DEF EdFile, PQFile, KeyFiles
<1>3. KeyFiles \subseteq DOMAIN InitialDisk /\ KeyFiles \cap {Doc0.cert, Doc0.key} = {}
  BY DeployedAssumption DEF Doc0
<1>4. KeyFiles \cap {"server.yaml", "client.yaml"} = {}
  BY DEF KeyFiles
<1> QED
  BY <1>1, <1>2, <1>3, <1>4

\* The files before the first rotation.
LEMMA RotationStarts ==
  ASSUME RotationInit
  PROVE  RotationInv
<1> USE DEF RotationInit, ConfigInit
<1>1. KeysOnDisk
  <2>1. InitialDisk[EdFile(0)] = PrivkeyPEM(0) /\ InitialDisk[PQFile(0)] = PQPrivkeyPEM(0)
    BY DeployedAssumption
  <2>2. edKey \in Nat \X Nat /\ edKey[1] = 0 /\ edKey[2] = 0
    OBVIOUS
  <2>3. pqKey \in Nat \X Nat /\ pqKey[1] = 0 /\ pqKey[2] = 0
    OBVIOUS
  <2> QED
    BY <2>1, <2>2, <2>3 DEF KeysOnDisk, Stages, Before
<1>2. EdNode(<<0>>) = <<"scalar", EncodePubkey(0)>> /\ PQNode(<<0>>) = <<"scalar", EncodePQPubkey(0)>>
  BY DEF EdNode, PQNode, Node
<1>3. Lists(Doc0, <<0>>, <<0>>)
  BY <1>2, FirstServer, DeployedAssumption, Zenon DEF Lists, Doc0
<1>4. Uses(Clt0, 0, 0)
  BY FirstClient, DeployedAssumption DEF Uses, Clt0
<1>5. ConfigsOnDisk
  BY <1>3, <1>4 DEF ConfigsOnDisk, Before, Both, Doc0, Clt0
<1> QED
  BY <1>1, <1>5 DEF RotationInv, ServerRunning, ClientRunning

\* Writing a key file that is not in use disturbs nothing else.
LEMMA WriteKeeps ==
  ASSUME RotationInv, NEW path \in KeyFiles, path \notin {EdFile(edKey[1]), PQFile(pqKey[1])}, NEW x,
         disk' = [disk EXCEPT ![path] = x]
  PROVE  /\ DOMAIN disk' = DOMAIN InitialDisk
         /\ disk'[path] = x /\ \A p \in DOMAIN disk \ {path} : disk'[p] = disk[p]
         /\ disk'["server.yaml"] = disk["server.yaml"] /\ disk'["client.yaml"] = disk["client.yaml"]
         /\ disk'[Doc0.cert] = InitialDisk[Doc0.cert] /\ disk'[Doc0.key] = InitialDisk[Doc0.key]
         /\ disk'[EdFile(edKey[1])] = PrivkeyPEM(edKey[1])
         /\ disk'[PQFile(pqKey[1])] = PQPrivkeyPEM(pqKey[1])
<1>1. DOMAIN disk = DOMAIN InitialDisk /\ edKey[1] \in Nat /\ pqKey[1] \in Nat
  BY Zenon DEF RotationInv, KeysOnDisk
<1>2. KeyFiles \subseteq DOMAIN InitialDisk /\ KeyFiles \cap {Doc0.cert, Doc0.key} = {}
  BY DeployedAssumption DEF Doc0
<1>3. DOMAIN disk' = DOMAIN disk /\ disk'[path] = x /\ \A p \in DOMAIN disk \ {path} : disk'[p] = disk[p]
  BY <1>1, <1>2
<1>4. path \notin {"server.yaml", "client.yaml"}
  BY Zenon DEF KeyFiles
<1>5. {"server.yaml", "client.yaml", Doc0.cert, Doc0.key} \subseteq DOMAIN InitialDisk
  BY FilesAssumption, DeployedAssumption DEF Doc0
<1>6. {EdFile(edKey[1]), PQFile(pqKey[1])} \subseteq DOMAIN InitialDisk
  BY <1>1, KeyFilesApart
<1> QED
  BY <1>1, <1>2, <1>3, <1>4, <1>5, <1>6, Zenon DEF RotationInv, KeysOnDisk

\* As long as the old keys are in use, the rest of the invariant depends on
\* these alone.
LEMMA BeforeKeeps ==
  ASSUME RotationInv, stage \in Before, stage' \in Before,
         edKey'[1] = edKey[1], pqKey'[1] = pqKey[1], server' = server, client' = client,
         disk'["server.yaml"] = disk["server.yaml"], disk'["client.yaml"] = disk["client.yaml"]
  PROVE  ConfigsOnDisk' /\ ServerRunning' /\ ClientRunning'
<1>1. stage' \notin Both /\ stage' \notin {"dropped", "switched", "moved"}
  BY Zenon DEF Before, Both
<1>2. ConfigsOnDisk'
  BY <1>1 DEF RotationInv, ConfigsOnDisk
<1>3. ServerRunning'
  BY <1>1 DEF RotationInv, ServerRunning
<1>4. ClientRunning'
  BY <1>1 DEF RotationInv, ClientRunning
<1> QED
  BY <1>2, <1>3, <1>4

\* Making keys, also if writing one fails.
LEMMA KeygenKeeps ==
  ASSUME RotationInv, KeygenEd \/ KeygenPQ \/ PQKeygen
  PROVE  RotationInv'
<1>0. /\ edKey[1] \in Nat /\ pqKey[1] \in Nat /\ edKey \in Nat \X Nat /\ pqKey \in Nat \X Nat
      /\ edKey[2] \in {edKey[1], edKey[1] + 1} /\ pqKey[2] \in {pqKey[1], pqKey[1] + 1}
  BY Zenon DEF RotationInv, KeysOnDisk
<1>a. edKey[1] + 1 \in Nat /\ pqKey[1] + 1 \in Nat
  BY <1>0
<1>1. CASE KeygenEd
  <2>1. PICK path, x : /\ path = EdFile(edKey[1] + 1) /\ disk' = [disk EXCEPT ![path] = x]
                       /\ stage' = "steady" \/ (stage' = "one key" /\ x = PrivkeyPEM(edKey[1] + 1))
    BY <1>1, Zenon DEF KeygenEd, WriteKey
  <2>2. path \in KeyFiles /\ path \notin {EdFile(edKey[1]), PQFile(pqKey[1])}
    BY <1>0, <1>a, <2>1, KeyFilesApart, Zenon
  <2>3. /\ stage = "steady" /\ edKey' = <<edKey[1], edKey[1] + 1>> /\ pqKey' = pqKey
        /\ server' = server /\ client' = client
    BY <1>1, Zenon DEF KeygenEd
  <2>4. edKey' \in Nat \X Nat /\ edKey'[1] = edKey[1] /\ edKey'[2] = edKey[1] + 1
    BY <1>0, <1>a, <2>3
  <2>5. KeysOnDisk'
    BY <1>0, <2>1, <2>2, <2>3, <2>4, WriteKeeps, Zenon DEF KeysOnDisk, Stages, Before
  <2> QED
    BY <2>1, <2>2, <2>3, <2>4, <2>5, WriteKeeps, BeforeKeeps, Zenon DEF RotationInv, Before
<1>2. CASE KeygenPQ
  <2>1. PICK path, x : /\ path = PQFile(pqKey[1] + 1) /\ disk' = [disk EXCEPT ![path] = x]
                       /\ stage' = "steady" \/ (stage' = "keys" /\ x = PQPrivkeyPEM(pqKey[1] + 1))
    BY <1>2, Zenon DEF KeygenPQ, WriteKey
  <2>2. path \in KeyFiles /\ path \notin {EdFile(edKey[1]), PQFile(pqKey[1]), EdFile(edKey[2])}
    BY <1>0, <1>a, <2>1, KeyFilesApart
  <2>3. /\ stage = "one key" /\ pqKey' = <<pqKey[1], pqKey[1] + 1>> /\ edKey' = edKey
        /\ server' = server /\ client' = client
    BY <1>2, Zenon DEF KeygenPQ
  <2>4. pqKey' \in Nat \X Nat /\ pqKey'[1] = pqKey[1] /\ pqKey'[2] = pqKey[1] + 1
    BY <1>0, <1>a, <2>3, Zenon
  <2>5. EdFile(edKey[2]) \in DOMAIN disk /\ disk[EdFile(edKey[2])] = PrivkeyPEM(edKey[2])
    BY <1>0, <2>3, KeyFilesApart, Zenon DEF RotationInv, KeysOnDisk
  <2>6. KeysOnDisk'
    BY <1>0, <2>1, <2>2, <2>3, <2>4, <2>5, WriteKeeps, ZenonT(60) DEF KeysOnDisk, Stages, Before
  <2> QED
    BY <2>1, <2>2, <2>3, <2>4, <2>6, WriteKeeps, BeforeKeeps, Zenon DEF RotationInv, Before
<1>3. CASE PQKeygen
  <2>1. PICK path, x : /\ path = PQFile(pqKey[1] + 1) /\ disk' = [disk EXCEPT ![path] = x]
                       /\ stage' = "steady" \/ (stage' = "keys" /\ x = PQPrivkeyPEM(pqKey[1] + 1))
    BY <1>3 DEF PQKeygen, WriteKey
  <2>2. path \in KeyFiles /\ path \notin {EdFile(edKey[1]), PQFile(pqKey[1])}
    BY <1>0, <1>a, <2>1, KeyFilesApart
  <2>3. /\ stage = "steady" /\ pqKey' = <<pqKey[1], pqKey[1] + 1>> /\ edKey' = <<edKey[1], edKey[1]>>
        /\ server' = server /\ client' = client
    BY <1>3 DEF PQKeygen
  <2>4. /\ pqKey' \in Nat \X Nat /\ pqKey'[1] = pqKey[1] /\ pqKey'[2] = pqKey[1] + 1
        /\ edKey' \in Nat \X Nat /\ edKey'[1] = edKey[1] /\ edKey'[2] = edKey[1]
    BY <1>0, <1>a, <2>3
  <2>5. KeysOnDisk'
    BY <1>0, <2>1, <2>2, <2>3, <2>4, WriteKeeps, Zenon DEF KeysOnDisk, Stages, Before
  <2> QED
    BY <2>1, <2>2, <2>3, <2>4, <2>5, WriteKeeps, BeforeKeeps, Zenon DEF RotationInv, Before
<1> QED
  BY <1>1, <1>2, <1>3

\* Editing one of the two configurations leaves the key files alone.
LEMMA EditKeeps ==
  ASSUME RotationInv, NEW p \in {"server.yaml", "client.yaml"}, NEW x,
         disk' = [disk EXCEPT ![p] = x], edKey' = edKey, pqKey' = pqKey,
         stage' \in Stages, stage \notin {"steady", "one key"}
  PROVE  /\ KeysOnDisk' /\ disk'[p] = x
         /\ \A f \in {"server.yaml", "client.yaml"} \ {p} : disk'[f] = disk[f]
<1>1. DOMAIN disk = DOMAIN InitialDisk
  BY Zenon DEF RotationInv, KeysOnDisk
<1>2. DOMAIN disk' = DOMAIN disk /\ disk'[p] = x /\ \A f \in DOMAIN disk \ {p} : disk'[f] = disk[f]
  BY <1>1, FilesAssumption, Zenon
<1>3. {EdFile(edKey[1]), EdFile(edKey[2]), PQFile(pqKey[1]), PQFile(pqKey[2])} \subseteq DOMAIN disk \ {p}
  BY <1>1, KeyLists, KeyFilesApart, Zenon
<1>4. {Doc0.cert, Doc0.key} \subseteq DOMAIN disk \ {p}
  BY <1>1, DeployedAssumption, Zenon DEF Doc0
<1>5. KeysOnDisk'
  BY <1>2, <1>3, <1>4, Zenon DEF RotationInv, KeysOnDisk
<1>6. \A f \in {"server.yaml", "client.yaml"} \ {p} : disk'[f] = disk[f]
  BY <1>1, <1>2, FilesAssumption, Zenon
<1> QED
  BY <1>2, <1>5, <1>6, Zenon

\* The steps of the procedure after the keys are made.
LEMMA ProcedureKeeps ==
  ASSUME RotationInv,
         AddKeys \/ Deploy \/ SwitchClient \/ RestartClient \/ DropKeys \/ Redeploy
  PROVE  RotationInv'
<1> USE DEF Stage
<1>1. CASE AddKeys
  <2>1. /\ stage = "keys" /\ stage' = "added" /\ edKey' = edKey /\ pqKey' = pqKey
        /\ server' = server /\ client' = client
        /\ disk' = [disk EXCEPT !["server.yaml"] = WithKeys(disk["server.yaml"], edKey, pqKey)]
    BY <1>1 DEF AddKeys, ListKeys
  <2>2. Lists(disk["server.yaml"], <<edKey[1]>>, <<pqKey[1]>>)
    BY <2>1 DEF RotationInv, ConfigsOnDisk, Before
  <2>3. Lists(WithKeys(disk["server.yaml"], edKey, pqKey), edKey, pqKey)
    BY <2>2, KeyLists, WithKeysLists
  <2>4. /\ KeysOnDisk' /\ disk'["server.yaml"] = WithKeys(disk["server.yaml"], edKey, pqKey)
        /\ disk'["client.yaml"] = disk["client.yaml"]
    BY <2>1, EditKeeps, Zenon DEF Stages, Both
  <2>5. ConfigsOnDisk'
    BY <2>1, <2>3, <2>4 DEF RotationInv, ConfigsOnDisk, Before, Both
  <2>6. ServerRunning' /\ ClientRunning'
    BY <2>1 DEF RotationInv, ServerRunning, ClientRunning, Before, Both
  <2> QED
    BY <2>4, <2>5, <2>6 DEF RotationInv
<1>2. CASE Deploy
  <2>1. /\ stage = "added" /\ stage' = "deployed" /\ edKey' = edKey /\ pqKey' = pqKey
        /\ disk' = disk /\ client' = client /\ server' = ServerFrom(disk)
    BY <1>2, FreshServer DEF Deploy, StartServer
  <2>2. KeysOnDisk' /\ ConfigsOnDisk'
    BY <2>1 DEF RotationInv, KeysOnDisk, ConfigsOnDisk, Stages, Before, Both
  <2>3. GoodServer(server', edKey, pqKey)
    BY <2>1, FreshServer DEF Both
  <2>4. ServerRunning'
    BY <2>1, <2>3 DEF ServerRunning, Before, Both
  <2>5. ClientRunning'
    BY <2>1 DEF RotationInv, ClientRunning, Before
  <2> QED
    BY <2>2, <2>4, <2>5 DEF RotationInv
<1>3. CASE SwitchClient
  <2>1. /\ stage = "deployed" /\ stage' = "switched" /\ edKey' = edKey /\ pqKey' = pqKey
        /\ server' = server /\ client' = client
        /\ disk' = [disk EXCEPT !["client.yaml"] =
                      [disk["client.yaml"] EXCEPT !.privkeyFile = EdFile(edKey[2]),
                                                  !.pqPrivkeyFile = PQFile(pqKey[2])]]
    BY <1>3 DEF SwitchClient
  <2>2. PICK doc : doc = [disk["client.yaml"] EXCEPT !.privkeyFile = EdFile(edKey[2]),
                                                     !.pqPrivkeyFile = PQFile(pqKey[2])]
    OBVIOUS
  <2>3. Uses(disk["client.yaml"], edKey[1], pqKey[1])
    BY <2>1 DEF RotationInv, ConfigsOnDisk
  <2>4. Uses(doc, edKey[2], pqKey[2])
    BY <2>2, <2>3, SwitchUses, Zenon
  <2>5. KeysOnDisk' /\ disk'["client.yaml"] = doc /\ disk'["server.yaml"] = disk["server.yaml"]
    BY <2>1, <2>2, EditKeeps, Zenon DEF Stages, Both
  <2>6. ConfigsOnDisk'
    BY <2>1, <2>4, <2>5 DEF RotationInv, ConfigsOnDisk, Before, Both
  <2>7. ServerRunning' /\ ClientRunning'
    BY <2>1 DEF RotationInv, ServerRunning, ClientRunning, Before, Both
  <2> QED
    BY <2>5, <2>6, <2>7 DEF RotationInv
<1>4. CASE RestartClient
  <2>1. /\ stage = "switched" /\ stage' = "moved" /\ edKey' = edKey /\ pqKey' = pqKey
        /\ disk' = disk /\ server' = server /\ client' = ClientFrom(disk)
    BY <1>4, FreshClient DEF RestartClient, StartClient
  <2>2. KeysOnDisk' /\ ConfigsOnDisk'
    BY <2>1 DEF RotationInv, KeysOnDisk, ConfigsOnDisk, Stages, Before, Both
  <2>3. GoodClient(client', edKey[2], pqKey[2])
    BY <2>1, FreshClient
  <2>4. ClientRunning'
    BY <2>1, <2>3 DEF ClientRunning, Before
  <2>5. ServerRunning'
    BY <2>1 DEF RotationInv, ServerRunning, Before, Both
  <2> QED
    BY <2>2, <2>4, <2>5 DEF RotationInv
<1>5. CASE DropKeys
  <2>1. /\ stage = "moved" /\ stage' = "dropped" /\ edKey' = edKey /\ pqKey' = pqKey
        /\ server' = server /\ client' = client
        /\ disk' = [disk EXCEPT !["server.yaml"] =
                      WithKeys(disk["server.yaml"], <<edKey[2]>>, <<pqKey[2]>>)]
    BY <1>5 DEF DropKeys, ListKeys
  <2>2. Lists(disk["server.yaml"], edKey, pqKey)
    BY <2>1 DEF RotationInv, ConfigsOnDisk, Both
  <2>3. Lists(WithKeys(disk["server.yaml"], <<edKey[2]>>, <<pqKey[2]>>), <<edKey[2]>>, <<pqKey[2]>>)
    BY <2>2, KeyLists, WithKeysLists
  <2>4. /\ KeysOnDisk'
        /\ disk'["server.yaml"] = WithKeys(disk["server.yaml"], <<edKey[2]>>, <<pqKey[2]>>)
        /\ disk'["client.yaml"] = disk["client.yaml"]
    BY <2>1, EditKeeps, Zenon DEF Stages, Both
  <2>5. ConfigsOnDisk'
    BY <2>1, <2>3, <2>4 DEF RotationInv, ConfigsOnDisk, Before, Both
  <2>6. server # Err => GoodServer(server, <<edKey[2]>>, <<pqKey[2]>>)
    <3>1. server # Err => GoodServer(server, edKey, pqKey)
      BY <2>1 DEF RotationInv, ServerRunning, Both
    <3>2. Members(<<edKey[2]>>) \subseteq Members(edKey) /\ Members(<<pqKey[2]>>) \subseteq Members(pqKey)
      BY KeyLists, Zenon
    <3> QED
      BY <3>1, <3>2 DEF GoodServer
  <2>7. ServerRunning' /\ ClientRunning'
    BY <2>1, <2>6 DEF RotationInv, ServerRunning, ClientRunning, Before, Both
  <2> QED
    BY <2>4, <2>5, <2>7 DEF RotationInv
<1>6. CASE Redeploy
  <2>1. /\ stage = "dropped" /\ stage' = "steady" /\ disk' = disk /\ client' = client
        /\ edKey' = <<edKey[2], edKey[2]>> /\ pqKey' = <<pqKey[2], pqKey[2]>>
        /\ server' = ServerFrom(disk)
    BY <1>6, FreshServer DEF Redeploy, StartServer
  <2>2. /\ edKey' \in Nat \X Nat /\ edKey'[1] = edKey[2] /\ edKey'[2] = edKey[2]
        /\ pqKey' \in Nat \X Nat /\ pqKey'[1] = pqKey[2] /\ pqKey'[2] = pqKey[2]
    BY <2>1, KeyLists
  <2>3. KeysOnDisk'
    BY <2>1, <2>2 DEF RotationInv, KeysOnDisk, Stages, Before
  <2>4. ConfigsOnDisk'
    BY <2>1, <2>2 DEF RotationInv, ConfigsOnDisk, Before, Both
  <2>5. GoodServer(server', <<edKey[2]>>, <<pqKey[2]>>)
    BY <2>1, FreshServer
  <2>6. ServerRunning'
    BY <2>1, <2>2, <2>5 DEF ServerRunning, Before, Both
  <2>7. ClientRunning'
    BY <2>1, <2>2 DEF RotationInv, ClientRunning, Before
  <2> QED
    BY <2>3, <2>4, <2>6, <2>7 DEF RotationInv
<1> QED
  BY <1>1, <1>2, <1>3, <1>4, <1>5, <1>6

\* A restart by the supervisor, of either process, in any stage.
LEMMA RestartKeeps ==
  ASSUME RotationInv, Processes, UNCHANGED <<stage, edKey, pqKey>>
  PROVE  RotationInv'
<1>1. disk' = disk
  BY DEF Processes, RunServer, RunClient, ServerExits, ClientExits
<1>2. KeysOnDisk' /\ ConfigsOnDisk'
  BY <1>1, Zenon DEF RotationInv, KeysOnDisk, ConfigsOnDisk
<1>3. server' = server \/ server' = Err \/ server' = ServerFrom(disk)
  BY DEF Processes, RunServer, StartServer, RunClient, ServerExits, ClientExits
<1>4. client' = client \/ client' = Err \/ client' = ClientFrom(disk)
  BY DEF Processes, RunServer, RunClient, StartClient, ServerExits, ClientExits
<1>5. ServerRunning'
  <2>1. stage = "added" => GoodServer(ServerFrom(disk), <<edKey[1]>>, <<pqKey[1]>>)
    BY KeyLists, FreshServer, GoodServerWeaken DEF Both
  <2> QED
    BY <1>3, <2>1, FreshServer DEF RotationInv, ServerRunning
<1>6. ClientRunning'
  BY <1>4, FreshClient DEF RotationInv, ClientRunning
<1> QED
  BY <1>2, <1>5, <1>6 DEF RotationInv

\* A rotation is never an outage, for every content of the first deployment that
\* works, any number of rotations, and restarts of both sides at any moment.
THEOREM RotationIsSafe == RotationSpec => []RestartSafe
<1>1. RotationInit => RotationInv
  BY RotationStarts
<1>2. RotationInv /\ [RotationNext]_rotationVars => RotationInv'
  <2> SUFFICES ASSUME RotationInv, [RotationNext]_rotationVars PROVE RotationInv'
    OBVIOUS
  <2>1. CASE Processes /\ UNCHANGED <<stage, edKey, pqKey>>
    BY <2>1, RestartKeeps
  <2>2. CASE KeygenEd \/ KeygenPQ \/ PQKeygen
    BY <2>2, KeygenKeeps
  <2>3. CASE AddKeys \/ Deploy \/ SwitchClient \/ RestartClient \/ DropKeys \/ Redeploy
    BY <2>3, ProcedureKeeps
  <2>4. CASE UNCHANGED rotationVars
    <3>1. UNCHANGED <<disk, server, client, stage, edKey, pqKey>>
      BY <2>4 DEF rotationVars, configVars
    <3>2. KeysOnDisk' /\ ConfigsOnDisk'
      BY <3>1, Zenon DEF RotationInv, KeysOnDisk, ConfigsOnDisk
    <3>3. ServerRunning' /\ ClientRunning'
      BY <3>1 DEF RotationInv, ServerRunning, ClientRunning
    <3> QED
      BY <3>2, <3>3 DEF RotationInv
  <2> QED
    BY <2>1, <2>2, <2>3, <2>4 DEF RotationNext
<1>3. RotationInv => RestartSafe
  BY InvIsRestartSafe
<1> QED
  BY <1>1, <1>2, <1>3, PTL DEF RotationSpec

=============================================================================
