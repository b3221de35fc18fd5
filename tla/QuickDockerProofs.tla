-------------------------- MODULE QuickDockerProofs --------------------------
(***************************************************************************)
(* What "passage quick-docker" leaves on disk, for every set of            *)
(* specifications and any number of runs that may fail anywhere.           *)
(***************************************************************************)
EXTENDS QuickDocker, ConfigProofs

AllFiles == ServerFiles \cup ClientFiles

\* What a run writes to a file, and as which of its steps.
FileOf(s, g, f) ==
  CASE f = "server.crt" -> <<"CERTIFICATE", g>>
    [] f = "server.key" -> <<"PRIVATE KEY", g>>
    [] f = "client.ed25519" -> PrivkeyPEM(g)
    [] f = "client.mldsa" -> PQPrivkeyPEM(g)
    [] f = "server.yaml" -> ServerYAML(s, EncodePubkey(g), EncodePQPubkey(g))
    [] f = "server compose" -> ServerCompose(s)
    [] f = "client.yaml" -> ClientYAML(s, <<"hex", g>>)
    [] OTHER -> ClientCompose(s)
Order ==
  <<"", "", "server.crt", "server.key", "client.ed25519", "client.mldsa",
    "server.yaml", "server compose", "client.yaml", "client compose">>

StepsOf(s, g) == {Generate(s, g)[i] : i \in 1..10}

\* Two more elements of a sequence.
LEMMA TwoMore ==
  ASSUME NEW S, NEW u \in Seq(S), NEW p \in S, NEW q \in S, NEW w, w = u \o <<p, q>>
  PROVE  /\ w \in Seq(S) /\ Len(w) = Len(u) + 2
         /\ \A i \in 1..Len(u) : w[i] = u[i]
         /\ w[Len(u) + 1] = p /\ w[Len(u) + 2] = q
<1>1. PICK v : v = <<p, q>>
  OBVIOUS
<1>2. v \in Seq(S) /\ Len(v) = 2 /\ v[1] = p /\ v[2] = q
  BY <1>1
<1>3. w = u \o v
  BY <1>1
<1>4. w \in Seq(S) /\ Len(w) = Len(u) + 2 /\ \A i \in 1..Len(u) : w[i] = u[i]
  BY <1>2, <1>3
<1>5. \A i \in 1..2 : w[Len(u) + i] = v[i]
  BY <1>2, <1>3
<1> QED
  BY <1>2, <1>4, <1>5

\* The steps of Generate, by their numbers.
LEMMA GenerateSteps ==
  ASSUME NEW s, NEW g
  PROVE  /\ Generate(s, g) \in Seq(StepsOf(s, g)) /\ Len(Generate(s, g)) = 10
         /\ Generate(s, g)[1] = Fresh("server") /\ Generate(s, g)[2] = Fresh("client")
         /\ \A i \in 3..10 : Generate(s, g)[i] = Write(Order[i], FileOf(s, g, Order[i]))
<1>1. PICK a, b, c, d, e, f, h, j :
        /\ a = Write("server.crt", <<"CERTIFICATE", g>>) /\ b = Write("server.key", <<"PRIVATE KEY", g>>)
        /\ c = Write("client.ed25519", PrivkeyPEM(g)) /\ d = Write("client.mldsa", PQPrivkeyPEM(g))
        /\ e = Write("server.yaml", ServerYAML(s, EncodePubkey(g), EncodePQPubkey(g)))
        /\ f = Write("server compose", ServerCompose(s))
        /\ h = Write("client.yaml", ClientYAML(s, <<"hex", g>>))
        /\ j = Write("client compose", ClientCompose(s))
  BY Zenon
<1>2. PICK x, y : x = Fresh("server") /\ y = Fresh("client")
  OBVIOUS
<1>3. Generate(s, g) = <<x, y>> \o <<a, b>> \o <<c, d>> \o <<e, f>> \o <<h, j>>
  BY <1>1, <1>2, Zenon DEF Generate, ServerKeys, ClientKeys, ServerStack, ClientStack
<1> DEFINE S == {x, y, a, b, c, d, e, f, h, j}
<1>4. PICK p, q, r, v, w : /\ p = <<x, y>> /\ q = p \o <<a, b>> /\ r = q \o <<c, d>>
                           /\ v = r \o <<e, f>> /\ w = v \o <<h, j>>
  BY Zenon
<1>5. w = Generate(s, g)
  BY <1>3, <1>4
<1>6. p \in Seq(S) /\ Len(p) = 2 /\ p[1] = x /\ p[2] = y
  BY <1>4
<1>plain. q \in Seq(S) /\ Len(q) = 4 /\ q[1] = x /\ q[2] = y /\ q[3] = a /\ q[4] = b
  BY <1>4, <1>6, TwoMore
<1>b. /\ r \in Seq(S) /\ Len(r) = 6 /\ r[1] = x /\ r[2] = y /\ r[3] = a /\ r[4] = b
      /\ r[5] = c /\ r[6] = d
  BY <1>4, <1>plain, TwoMore
<1>c. /\ v \in Seq(S) /\ Len(v) = 8 /\ v[1] = x /\ v[2] = y /\ v[3] = a /\ v[4] = b
      /\ v[5] = c /\ v[6] = d /\ v[7] = e /\ v[8] = f
  BY <1>4, <1>b, TwoMore
<1>d. /\ w \in Seq(S) /\ Len(w) = 10 /\ w[1] = x /\ w[2] = y /\ w[3] = a /\ w[4] = b
      /\ w[5] = c /\ w[6] = d /\ w[7] = e /\ w[8] = f /\ w[9] = h /\ w[10] = j
  BY <1>4, <1>c, TwoMore
<1>7. w \in Seq({w[i] : i \in 1..10})
  <2>1. PICK R : R = {w[i] : i \in 1..10}
    BY Zenon
  <2>2. \A i \in 1..Len(w) : w[i] \in R
    BY <1>d, <2>1
  <2>3. w \in Seq(R)
    BY <1>d, <2>2
  <2> QED
    BY <2>1, <2>3
<1>8. \A i \in 3..10 : w[i] = Write(Order[i], FileOf(s, g, Order[i]))
  <2> TAKE i \in 3..10
  <2>1. i \in {3, 4, 5, 6, 7, 8, 9, 10}
    OBVIOUS
  <2>2. CASE i = 3
    BY <1>1, <1>d, <2>2, Zenon DEF Order, FileOf
  <2>3. CASE i = 4
    BY <1>1, <1>d, <2>3, Zenon DEF Order, FileOf
  <2>4. CASE i = 5
    BY <1>1, <1>d, <2>4, Zenon DEF Order, FileOf
  <2>5. CASE i = 6
    BY <1>1, <1>d, <2>5, Zenon DEF Order, FileOf
  <2>6. CASE i = 7
    BY <1>1, <1>d, <2>6, Zenon DEF Order, FileOf
  <2>7. CASE i = 8
    BY <1>1, <1>d, <2>7, Zenon DEF Order, FileOf
  <2>8. CASE i = 9
    BY <1>1, <1>d, <2>8, Zenon DEF Order, FileOf
  <2>9. CASE i = 10
    BY <1>1, <1>d, <2>9, Zenon DEF Order, FileOf
  <2> QED
    BY <2>1, <2>2, <2>3, <2>4, <2>5, <2>6, <2>7, <2>8, <2>9
<1> QED
  BY <1>2, <1>5, <1>d, <1>7, <1>8 DEF StepsOf

-----------------------------------------------------------------------------
(* What is on disk.                                                        *)

\* What there is was written by one run.
FromRun(s, g) == \A f \in AllFiles : disk[f] \in {Err, FileOf(s, g, f)}
OneRun ==
  \/ \A f \in AllFiles : disk[f] = Err
  \/ \E s \in Specs, g \in Nat : SpecValidate(s) /\ FromRun(s, g)

\* A run has taken n of its steps.
InRun(n) ==
  /\ n \in 0..9 /\ spec \in Specs /\ SpecValidate(spec) /\ exit = "none"
  /\ plan \in Seq(StepsOf(spec, gen)) /\ Len(plan) = 10 - n
  /\ \A i \in 1..Len(plan) : plan[i] = Generate(spec, gen)[n + i]
  /\ n = 1 => \A f \in ServerFiles : disk[f] = Err
  /\ n >= 2 => \A i \in 3..10 :
                 disk[Order[i]] = IF i <= n THEN FileOf(spec, gen, Order[i]) ELSE Err

\* A run has written everything.
Complete ==
  spec \in Specs /\ SpecValidate(spec) /\ \A f \in AllFiles : disk[f] = FileOf(spec, gen, f)

GenInv ==
  /\ DOMAIN disk = AllFiles /\ gen \in Nat
  /\ OneRun
  /\ plan = <<>> \/ \E n \in 0..9 : InRun(n)
  /\ exit = "ok" => plan = <<>> /\ Complete

\* Every file is written by one step.
LEMMA OrderOfFiles ==
  /\ AllFiles = {Order[i] : i \in 3..10}
  /\ \A i, j \in 3..10 : Order[i] = Order[j] => i = j
<1>2. /\ Order[3] = "server.crt" /\ Order[4] = "server.key" /\ Order[5] = "client.ed25519"
      /\ Order[6] = "client.mldsa" /\ Order[7] = "server.yaml" /\ Order[8] = "server compose"
      /\ Order[9] = "client.yaml" /\ Order[10] = "client compose"
  BY DEF Order
<1>3. AllFiles = {Order[i] : i \in {3, 4, 5, 6, 7, 8, 9, 10}}
  BY <1>2, Zenon DEF AllFiles, ServerFiles, ClientFiles
<1>4. \A i, j \in {3, 4, 5, 6, 7, 8, 9, 10} : Order[i] = Order[j] => i = j
  <2> DEFINE Rank(f) == CASE f = "server.crt" -> 3 [] f = "server.key" -> 4
                          [] f = "client.ed25519" -> 5 [] f = "client.mldsa" -> 6
                          [] f = "server.yaml" -> 7 [] f = "server compose" -> 8
                          [] f = "client.yaml" -> 9 [] OTHER -> 10
  <2>1. \A i \in {3, 4, 5, 6, 7, 8, 9, 10} : Rank(Order[i]) = i
    BY <1>2, Zenon
  <2> HIDE DEF Rank
  <2> QED
    BY <2>1
<1>5. 3..10 = {3, 4, 5, 6, 7, 8, 9, 10}
  OBVIOUS
<1> QED
  BY <1>3, <1>4, <1>5

\* Fewer files are still files of one run.
LEMMA RemovedKeeps ==
  ASSUME GenInv, NEW gone, disk' = Removed(gone)
  PROVE  DOMAIN disk' = AllFiles /\ OneRun'
<1>1. DOMAIN disk' = AllFiles /\ \A f \in AllFiles : disk'[f] \in {Err, disk[f]}
  BY DEF GenInv, Removed
<1>2. CASE \A f \in AllFiles : disk[f] = Err
  BY <1>1, <1>2 DEF OneRun
<1>3. ASSUME NEW s \in Specs, NEW g \in Nat, SpecValidate(s), FromRun(s, g) PROVE OneRun'
  <2>1. FromRun(s, g)'
    BY <1>1, <1>3 DEF FromRun
  <2> QED
    BY <1>3, <2>1 DEF OneRun
<1> QED
  BY <1>1, <1>2, <1>3 DEF GenInv, OneRun

\* A step that is done brings the run to the next step, or to its end.
LEMMA StepDone ==
  ASSUME NEW n \in 0..9, InRun(n), Done, spec' = spec, gen' = gen
  PROVE  /\ plan[1] = Generate(spec, gen)[n + 1]
         /\ n = 9 => plan' = <<>> /\ exit' = "ok"
         /\ n < 9 => /\ exit' = "none" /\ Len(plan') = 10 - (n + 1)
                     /\ plan' \in Seq(StepsOf(spec', gen'))
                     /\ \A i \in 1..Len(plan') : plan'[i] = Generate(spec', gen')[(n + 1) + i]
<1>1. PICK S : S = StepsOf(spec, gen)
  OBVIOUS
<1>2. plan \in Seq(S) /\ Len(plan) = 10 - n /\ \A i \in 1..Len(plan) : plan[i] = Generate(spec, gen)[n + i]
  BY <1>1 DEF InRun
<1>3. plan' = Tail(plan) /\ exit' = IF Len(plan) = 1 THEN "ok" ELSE "none"
  BY DEF Done, InRun
<1>4. plan[1] = Generate(spec, gen)[n + 1]
  BY <1>2
<1>5. plan' \in Seq(S) /\ Len(plan') = 10 - (n + 1)
  BY <1>2, <1>3
<1>6. \A i \in 1..Len(plan') : plan'[i] = plan[i + 1]
  BY <1>2, <1>3
<1>7. \A i \in 1..Len(plan') : plan'[i] = Generate(spec, gen)[(n + 1) + i]
  <2> TAKE i \in 1..Len(plan')
  <2>1. i + 1 \in 1..Len(plan) /\ n + (i + 1) = (n + 1) + i
    BY <1>2, <1>5
  <2> QED
    BY <1>2, <1>6, <2>1
<1>8. n = 9 => plan' = <<>> /\ exit' = "ok"
  BY <1>2, <1>3, <1>5
<1>9. n < 9 => exit' = "none"
  BY <1>2, <1>3
<1>10. plan' \in Seq(StepsOf(spec', gen'))
  BY <1>1, <1>5
<1> QED
  BY <1>4, <1>5, <1>7, <1>8, <1>9, <1>10

\* A run can fail at any step and leave files of one run.
LEMMA FailureKeeps ==
  ASSUME GenInv, Fails, DOMAIN disk' = AllFiles, OneRun', gen' = gen
  PROVE  GenInv'
  BY DEF GenInv, Fails

\* Which step is next tells how far the run is.
LEMMA NextStep ==
  ASSUME NEW n \in 0..9, InRun(n)
  PROVE  /\ plan # <<>> /\ plan[1] = Generate(spec, gen)[n + 1]
         /\ n = 0 => plan[1].op = "fresh" /\ plan[1].dir = "server"
         /\ n = 1 => plan[1].op = "fresh" /\ plan[1].dir = "client"
         /\ n >= 2 => /\ plan[1].op = "write" /\ plan[1].file = Order[n + 1]
                      /\ plan[1].content = FileOf(spec, gen, Order[n + 1])
<1>1. plan[1] = Generate(spec, gen)[n + 1] /\ plan # <<>>
  BY DEF InRun
<1>plain. Generate(spec, gen)[1] = Fresh("server") /\ Generate(spec, gen)[2] = Fresh("client")
  BY GenerateSteps
<1>2. n = 0 => plan[1] = Fresh("server")
  BY <1>1, <1>plain
<1>3. n = 1 => plan[1] = Fresh("client")
  BY <1>1, <1>plain
<1>4. n >= 2 => plan[1] = Write(Order[n + 1], FileOf(spec, gen, Order[n + 1]))
  <2>1. n >= 2 => n + 1 \in 3..10
    OBVIOUS
  <2> QED
    BY <1>1, <2>1, GenerateSteps, Zenon
<1> QED
  BY <1>1, <1>2, <1>3, <1>4 DEF Fresh, Write

\* In the writing part of a run, the files are of this run.
LEMMA WritingIsOneRun ==
  ASSUME GenInv, NEW n \in 2..9, InRun(n), NEW x \in {Err, FileOf(spec, gen, Order[n + 1])},
         disk' = [disk EXCEPT ![Order[n + 1]] = x], spec' = spec, gen' = gen
  PROVE  /\ DOMAIN disk' = AllFiles /\ OneRun'
         /\ disk'[Order[n + 1]] = x
         /\ \A i \in 3..10 : i # n + 1 =>
              disk'[Order[i]] = IF i <= n THEN FileOf(spec, gen, Order[i]) ELSE Err
<1>1. n + 1 \in 3..10 /\ Order[n + 1] \in AllFiles
  BY OrderOfFiles
<1>2. DOMAIN disk = AllFiles
  BY DEF GenInv
<1>3. DOMAIN disk' = AllFiles /\ disk'[Order[n + 1]] = x /\ \A f \in AllFiles \ {Order[n + 1]} : disk'[f] = disk[f]
  BY <1>1, <1>2
<1>4. \A i \in 3..10 : i # n + 1 => Order[i] \in AllFiles \ {Order[n + 1]}
  BY <1>1, OrderOfFiles
<1>5. \A i \in 3..10 : disk[Order[i]] = IF i <= n THEN FileOf(spec, gen, Order[i]) ELSE Err
  BY DEF InRun
<1>6. \A i \in 3..10 : i # n + 1 => disk'[Order[i]] = IF i <= n THEN FileOf(spec, gen, Order[i]) ELSE Err
  BY <1>3, <1>4, <1>5
<1>7. \A i \in 3..10 : disk'[Order[i]] \in {Err, FileOf(spec, gen, Order[i])}
  BY <1>3, <1>6
<1>8. FromRun(spec, gen)'
  BY <1>7, OrderOfFiles DEF FromRun
<1>9. OneRun'
  BY <1>8 DEF OneRun, InRun, GenInv
<1> QED
  BY <1>3, <1>6, <1>9

\* The start of a run.
LEMMA RunKeeps ==
  ASSUME GenInv, NEW s \in Specs, NEW f, RunQuickDocker(s, f)
  PROVE  GenInv'
<1>1. /\ plan' = Generate(s, gen + 1) /\ spec' = s /\ gen' = gen + 1 /\ exit' = "none"
      /\ disk' = disk /\ SpecValidate(s)
  BY DEF RunQuickDocker, configVars
<1>2. gen' \in Nat
  BY <1>1 DEF GenInv
<1>3. plan' \in Seq(StepsOf(spec', gen')) /\ Len(plan') = 10
  BY <1>1, GenerateSteps
<1>4. \A i \in 1..Len(plan') : plan'[i] = Generate(spec', gen')[0 + i]
  BY <1>1, <1>3
<1>5. InRun(0)'
  BY <1>1, <1>3, <1>4 DEF InRun
<1>6. OneRun'
  BY <1>1 DEF GenInv, OneRun, FromRun
<1> QED
  BY <1>1, <1>2, <1>5, <1>6 DEF GenInv

\* Making the directories fresh.
LEMMA FreshKeeps ==
  ASSUME GenInv, EnsureFreshDir
  PROVE  GenInv'
<1>1. plan # <<>> /\ plan[1].op = "fresh" /\ Done /\ spec' = spec /\ gen' = gen
  BY DEF EnsureFreshDir, Doing
<1>2. PICK n \in 0..9 : InRun(n)
  BY <1>1 DEF GenInv
<1>3. n \in {0, 1}
  BY <1>1, <1>2, NextStep
<1>4. disk' = Removed(FilesOf(plan[1].dir))
  BY DEF EnsureFreshDir
<1>5. DOMAIN disk' = AllFiles /\ OneRun'
  BY <1>4, RemovedKeeps
<1>6. CASE n = 0
  <2>1. disk' = Removed(ServerFiles)
    BY <1>2, <1>4, <1>6, NextStep DEF FilesOf
  <2>2. \A f \in ServerFiles : disk'[f] = Err
    BY <2>1 DEF Removed, GenInv, AllFiles
  <2>3. InRun(1)'
    BY <1>1, <1>2, <1>6, <2>2, StepDone DEF InRun
  <2> QED
    BY <1>1, <1>5, <2>3 DEF GenInv, InRun
<1>7. CASE n = 1
  <2>1. disk' = Removed(ClientFiles)
    BY <1>2, <1>4, <1>7, NextStep DEF FilesOf
  <2>2. \A f \in AllFiles : disk'[f] = Err
    BY <1>2, <1>7, <2>1 DEF Removed, GenInv, AllFiles, InRun
  <2>3. \A i \in 3..10 : disk'[Order[i]] = IF i <= 2 THEN FileOf(spec', gen', Order[i]) ELSE Err
    BY <2>2, OrderOfFiles
  <2>5. /\ exit' = "none" /\ Len(plan') = 10 - (n + 1)
        /\ plan' \in Seq(StepsOf(spec', gen'))
        /\ \A i \in 1..Len(plan') : plan'[i] = Generate(spec', gen')[(n + 1) + i]
    <3>1. n < 9
      BY <1>7
    <3> QED
      BY <1>1, <1>2, <3>1, StepDone, Zenon
  <2>4. InRun(2)'
    BY <1>1, <1>2, <1>7, <2>3, <2>5 DEF InRun
  <2> QED
    BY <1>1, <1>5, <2>4 DEF GenInv, InRun
<1> QED
  BY <1>3, <1>6, <1>7

\* Writing a file.
LEMMA WriteFileKeeps ==
  ASSUME GenInv, WriteFile
  PROVE  GenInv'
<1>1. plan # <<>> /\ plan[1].op = "write" /\ Done /\ spec' = spec /\ gen' = gen
  BY DEF WriteFile, Doing
<1>2. PICK n \in 0..9 : InRun(n)
  BY <1>1 DEF GenInv
<1>3. n \in 2..9
  <2>1. n # 0 /\ n # 1
    BY <1>1, <1>2, NextStep
  <2> QED
    BY <2>1
<1>4. disk' = [disk EXCEPT ![Order[n + 1]] = FileOf(spec, gen, Order[n + 1])]
  <2>1. plan[1].file = Order[n + 1] /\ plan[1].content = FileOf(spec, gen, Order[n + 1])
    BY <1>2, <1>3, NextStep
  <2> QED
    BY <2>1 DEF WriteFile
<1>5. /\ DOMAIN disk' = AllFiles /\ OneRun' /\ disk'[Order[n + 1]] = FileOf(spec, gen, Order[n + 1])
      /\ \A i \in 3..10 : i # n + 1 => disk'[Order[i]] = IF i <= n THEN FileOf(spec, gen, Order[i]) ELSE Err
  BY <1>1, <1>2, <1>3, <1>4, WritingIsOneRun, Zenon
<1>6. \A i \in 3..10 : disk'[Order[i]] = IF i <= n + 1 THEN FileOf(spec', gen', Order[i]) ELSE Err
  BY <1>1, <1>3, <1>5
<1>7. CASE n = 9
  <2>1. plan' = <<>> /\ exit' = "ok"
    BY <1>1, <1>2, <1>7, StepDone
  <2>2. \A i \in 3..10 : disk'[Order[i]] = FileOf(spec', gen', Order[i])
    BY <1>6, <1>7
  <2>3. \A f \in AllFiles : disk'[f] = FileOf(spec', gen', f)
    BY <2>2, OrderOfFiles
  <2>4. Complete'
    BY <1>1, <1>2, <2>3 DEF Complete, InRun
  <2> QED
    BY <1>1, <1>5, <2>1, <2>4 DEF GenInv
<1>8. CASE n < 9
  <2>2. /\ exit' = "none" /\ Len(plan') = 10 - (n + 1)
        /\ plan' \in Seq(StepsOf(spec', gen'))
        /\ \A i \in 1..Len(plan') : plan'[i] = Generate(spec', gen')[(n + 1) + i]
    BY <1>1, <1>2, <1>8, StepDone, Zenon
  <2>3. spec' \in Specs /\ SpecValidate(spec') /\ n + 1 \in 0..9 /\ n + 1 # 1
    BY <1>1, <1>2, <1>3, <1>8 DEF InRun
  <2>1. InRun(n + 1)'
    BY <1>6, <2>2, <2>3 DEF InRun
  <2> QED
    BY <1>1, <1>3, <1>5, <1>8, <2>1, Zenon DEF GenInv, InRun
<1> QED
  BY <1>3, <1>7, <1>8

\* Failing to make a directory fresh, or to write a file.
LEMMA FailsKeep ==
  ASSUME GenInv, FreshDirFails \/ WriteFails
  PROVE  GenInv'
<1>1. Fails /\ gen' = gen /\ spec' = spec
  BY DEF FreshDirFails, WriteFails
<1>2. CASE FreshDirFails
  <2>1. CASE disk' = disk
    BY <1>1, <2>1, FailureKeeps DEF GenInv, OneRun, FromRun
  <2>2. ASSUME NEW gone, disk' = Removed(gone) PROVE GenInv'
    BY <1>1, <2>2, RemovedKeeps, FailureKeeps
  <2> QED
    BY <1>2, <2>1, <2>2 DEF FreshDirFails
<1>3. CASE WriteFails
  <2>1. plan # <<>> /\ plan[1].op = "write"
    BY <1>3 DEF WriteFails, Doing
  <2>2. PICK n \in 0..9 : InRun(n)
    BY <2>1 DEF GenInv
  <2>3. n \in 2..9
    <3>1. n # 0 /\ n # 1
      BY <2>1, <2>2, NextStep
    <3> QED
      BY <3>1
  <2>4. plan[1].file = Order[n + 1] /\ plan[1].content = FileOf(spec, gen, Order[n + 1])
    BY <2>2, <2>3, NextStep
  <2>5. PICK x \in {Err, FileOf(spec, gen, Order[n + 1])} : disk' = [disk EXCEPT ![Order[n + 1]] = x]
    BY <1>3, <2>4, Zenon DEF WriteFails
  <2>6. DOMAIN disk' = AllFiles /\ OneRun'
    BY <1>1, <2>2, <2>3, <2>5, WritingIsOneRun, Zenon
  <2> QED
    BY <1>1, <2>6, FailureKeeps
<1> QED
  BY <1>2, <1>3

\* The files on disk are always those of one run, and complete after a success.
LEMMA GenInvariant == GenSpec => []GenInv
<1>1. GenInit => GenInv
  BY DEF GenInit, GenInv, OneRun, AllFiles
<1>2. GenInv /\ [GenNext]_<<configVars, genVars>> => GenInv'
  <2> SUFFICES ASSUME GenInv, [GenNext]_<<configVars, genVars>> PROVE GenInv'
    OBVIOUS
  <2>1. ASSUME NEW s \in Specs, NEW f \in BOOLEAN, RunQuickDocker(s, f) PROVE GenInv'
    BY <2>1, RunKeeps
  <2>2. CASE EnsureFreshDir
    BY <2>2, FreshKeeps
  <2>3. CASE WriteFile
    BY <2>3, WriteFileKeeps
  <2>4. CASE FreshDirFails \/ WriteFails
    BY <2>4, FailsKeep
  <2>5. CASE UNCHANGED <<configVars, genVars>>
    <3>1. UNCHANGED <<disk, dirs, plan, spec, gen, exit>>
      BY <2>5 DEF configVars, genVars
    <3>2. OneRun' /\ Complete = Complete'
      BY <3>1 DEF GenInv, OneRun, FromRun, Complete
    <3>3. plan' = <<>> \/ (\E n \in 0..9 : InRun(n)')
      BY <3>1 DEF GenInv, InRun
    <3> QED
      BY <3>1, <3>2, <3>3 DEF GenInv
  <2> QED
    BY <2>1, <2>2, <2>3, <2>4, <2>5 DEF GenNext
<1> QED
  BY <1>1, <1>2, PTL DEF GenSpec

-----------------------------------------------------------------------------
(* What starts from the files of a run.                                    *)

ScalarNames(s) == {Scalar(sv.name) : sv \in Members(s.services)}
SpecService == [name : Text, client : Address, server : Address]

\* The parts of a specification that Load accepts.
LEMMA SpecParts ==
  ASSUME NEW s \in Specs, SpecValidate(s)
  PROVE  /\ s.services \in Seq(SpecService) /\ s.services # <<>> /\ 1 \in DOMAIN s.services
         /\ s.listen \in Text \X Int /\ s.address \in Text \X Int /\ s.id \in Text /\ s.id # ""
         /\ s.serverMode \in {"host", "isolated"}
         /\ \A i \in DOMAIN s.services :
              /\ s.services[i] \in Members(s.services)
              /\ s.services[i].name \in Text /\ s.services[i].name # ""
              /\ s.services[i].client \in Text \X Int /\ s.services[i].server \in Text \X Int
              /\ ServerListenForService(s, s.services[i].server) \in Text \X Int
<1>1. s \in SpecFile
  BY SpecsAssumption, Zenon
<1>2. s.services \in Seq(SpecService) /\ s.services # <<>>
  BY <1>1, Zenon DEF SpecFile, SpecService, SpecValidate
<1>3. /\ s.listen \in Text \X Int /\ s.address \in Text \X Int /\ s.id \in Text /\ s.id # ""
      /\ s.serverMode \in {"host", "isolated"}
  BY <1>1, Zenon DEF SpecFile, SpecValidate, Address
<1>4. ASSUME NEW i \in DOMAIN s.services
      PROVE  /\ s.services[i] \in Members(s.services)
             /\ s.services[i].name \in Text /\ s.services[i].name # ""
             /\ s.services[i].client \in Text \X Int /\ s.services[i].server \in Text \X Int
             /\ ServerListenForService(s, s.services[i].server) \in Text \X Int
  <2>1. s.services[i] \in SpecService /\ s.services[i] \in Members(s.services)
    BY <1>2 DEF Members
  <2>2. s.services[i].name # "" /\ s.services[i].client # <<>> /\ s.services[i].server # <<>>
    BY <2>1, Zenon DEF SpecValidate
  <2>3. s.services[i].client \in Text \X Int /\ s.services[i].server \in Text \X Int
    BY <2>1, <2>2, Zenon DEF SpecService, Address
  <2>4. ServerListenForService(s, s.services[i].server) \in Text \X Int
    <3>1. PICK addr : addr = s.services[i].server
      OBVIOUS
    <3>2. addr \in Text \X Int /\ addr[2] \in Int
      BY <2>3, <3>1
    <3>3. "0.0.0.0" \in Text
      BY DEF Text
    <3>4. <<"0.0.0.0", addr[2]>> \in Text \X Int
      BY <3>2, <3>3
    <3> QED
      BY <3>1, <3>2, <3>4 DEF ServerListenForService
  <2> QED
    BY <2>1, <2>2, <2>3, <2>4, Zenon DEF SpecService
<1>5. 1 \in DOMAIN s.services
  BY <1>2
<1> QED
  BY <1>2, <1>3, <1>4, <1>5, Zenon

\* The services of the server.yaml of a run.
ServicesYAML(s) ==
  [i \in DOMAIN s.services |->
     [name |-> Scalar(s.services[i].name), listen |-> ServerListenForService(s, s.services[i].server),
      cidrs |-> {}]]

\* They are those of the specification, in its order.
LEMMA ServicesYAMLParts ==
  ASSUME NEW s \in Specs, SpecValidate(s)
  PROVE  /\ ServicesYAML(s) \in Seq(ServiceEntry) /\ DOMAIN ServicesYAML(s) = DOMAIN s.services
         /\ \A i \in DOMAIN s.services :
              /\ ServicesYAML(s)[i].name = Scalar(s.services[i].name)
              /\ ServicesYAML(s)[i].listen = ServerListenForService(s, s.services[i].server)
              /\ ServicesYAML(s)[i].cidrs = {}
         /\ Names(ServicesYAML(s)) = ScalarNames(s)
<1>1. ASSUME NEW i \in DOMAIN s.services
      PROVE  ServicesYAML(s)[i] \in ServiceEntry
  <2>1. Scalar(s.services[i].name) \in Text
    BY SpecParts, Zenon DEF Scalar, Text
  <2>2. ServerListenForService(s, s.services[i].server) \in Address
    BY SpecParts, Zenon DEF Address
  <2> QED
    BY <2>1, <2>2 DEF ServiceEntry, ServicesYAML
<1>2. ServicesYAML(s) \in Seq(ServiceEntry) /\ DOMAIN ServicesYAML(s) = DOMAIN s.services
  <2>1. DOMAIN s.services = 1..Len(s.services) /\ Len(s.services) \in Nat
    <3>1. s.services \in Seq(SpecService)
      BY SpecParts, Zenon
    <3> QED
      BY <3>1
  <2>2. PICK w : w = ServicesYAML(s)
    OBVIOUS
  <2>3. w = [i \in DOMAIN s.services |-> w[i]]
    BY <2>2 DEF ServicesYAML
  <2>4. \A i \in DOMAIN s.services : w[i] \in ServiceEntry
    BY <1>1, <2>2
  <2> QED
    BY <2>1, <2>2, <2>3, <2>4
<1>3. \A i \in DOMAIN s.services :
              /\ ServicesYAML(s)[i].name = Scalar(s.services[i].name)
              /\ ServicesYAML(s)[i].listen = ServerListenForService(s, s.services[i].server)
              /\ ServicesYAML(s)[i].cidrs = {}
  BY DEF ServicesYAML
<1>4. Names(ServicesYAML(s)) = ScalarNames(s)
  BY <1>2, <1>3 DEF Names, ScalarNames, Members
<1> QED
  BY <1>2, <1>3, <1>4

\* The server.yaml of a run, field by field.
LEMMA ServerYAMLParts ==
  ASSUME NEW s \in Specs, SpecValidate(s), NEW g \in Nat, NEW doc,
         doc = ServerYAML(s, EncodePubkey(g), EncodePQPubkey(g)), doc # Err \/ Portable(s)
  PROVE  /\ doc \in ServerFile /\ doc.unknown = {} /\ doc.listen = s.listen
         /\ doc.cert = "server.crt" /\ doc.key = "server.key"
         /\ doc.maxStreams = 256 /\ doc.handshake = 10 /\ doc.idle = 300 /\ doc.heartbeat = 30
         /\ DOMAIN doc.clients = {1} /\ doc.clients[1] \in ClientEntry
         /\ doc.clients[1].id = Scalar(s.id) /\ doc.clients[1].services = ServicesYAML(s)
         /\ doc.clients[1].pubkey = <<"scalar", <<"ed25519", g>>>>
         /\ doc.clients[1].pqPubkey = <<"scalar", <<"mldsa", g>>>>
<1>1. PICK ed, pq : ed = <<"scalar", <<"ed25519", g>>>> /\ pq = <<"scalar", <<"mldsa", g>>>>
  BY Zenon
<1>2. ed \in YamlNode /\ pq \in YamlNode
  <2>1. <<"ed25519", g>> \in KeyText /\ <<"mldsa", g>> \in KeyText
    BY Zenon DEF KeyText, Text
  <2> QED
    BY <1>1, <2>1, Zenon DEF YamlNode
<1>3. PICK ce : ce = [id |-> Scalar(s.id), pubkey |-> ed, pqPubkey |-> pq, services |-> ServicesYAML(s)]
  BY Zenon
<1>4. Scalar(s.id) \in Text
  BY SpecParts, Zenon DEF Scalar, Text
<1>5. /\ ce \in ClientEntry /\ ce.id = Scalar(s.id) /\ ce.pubkey = ed /\ ce.pqPubkey = pq
      /\ ce.services = ServicesYAML(s)
  BY <1>2, <1>3, <1>4, ServicesYAMLParts DEF ClientEntry
<1>plain. doc # Err \/ ~(~Plain(s.listen) \/ \E sv \in Members(ServicesYAML(s)) : ~Plain(sv.listen))
  <2> SUFFICES ASSUME Portable(s)
               PROVE  Plain(s.listen) /\ \A sv \in Members(ServicesYAML(s)) : Plain(sv.listen)
    OBVIOUS
  <2>1. \A i \in DOMAIN s.services : Plain(ServerListenForService(s, s.services[i].server))
    BY SpecParts, Zenon DEF Portable
  <2>2. \A i \in DOMAIN s.services : Plain(ServicesYAML(s)[i].listen)
    BY <2>1, ServicesYAMLParts
  <2> QED
    BY <2>2, ServicesYAMLParts DEF Portable, Members
<1>6. doc = [unknown |-> {}, listen |-> s.listen, cert |-> "server.crt", key |-> "server.key",
             clients |-> <<ce>>, maxStreams |-> 256, handshake |-> 10, idle |-> 300, heartbeat |-> 30]
  <2>1. PICK rec : rec = [unknown |-> {}, listen |-> s.listen, cert |-> "server.crt", key |-> "server.key",
                          clients |-> <<ce>>, maxStreams |-> 256, handshake |-> 10, idle |-> 300,
                          heartbeat |-> 30]
    BY Zenon
  <2>2. doc = IF ~Plain(s.listen) \/ \E sv \in Members(ServicesYAML(s)) : ~Plain(sv.listen)
              THEN Err ELSE rec
    BY <1>1, <1>3, <2>1, Zenon DEF ServerYAML, ServicesYAML, EncodePubkey, EncodePQPubkey
  <2>3. doc = rec
    BY <1>plain, <2>2, Zenon
  <2> QED
    BY <2>1, <2>3
<1>7. PICK cs : cs = <<ce>>
  BY Zenon
<1>8. cs \in Seq(ClientEntry) /\ DOMAIN cs = {1} /\ cs[1] = ce
  BY <1>5, <1>7
<1>9. s.listen \in Address /\ "server.crt" \in Text /\ "server.key" \in Text
  BY SpecParts, Zenon DEF Address, Text
<1>10. doc \in ServerFile
  BY <1>6, <1>7, <1>8, <1>9 DEF ServerFile
<1> QED
  BY <1>1, <1>5, <1>6, <1>7, <1>8, <1>10

\* What the configuration of a run's server says.
IsRunConfig(c, s, g) ==
  /\ c \in ServerConfig /\ DOMAIN c.clients = {1}
  /\ c.clients[1].id = Scalar(s.id) /\ c.clients[1].services = ServicesYAML(s)
  /\ c.clients[1].pubkey = <<<<"ed25519", g>>>> /\ c.clients[1].pqPubkey = <<<<"mldsa", g>>>>
  /\ c.listen = s.listen /\ c.cert = "server.crt" /\ c.key = "server.key"
  /\ c.maxStreams = 256 /\ c.handshake = 10 /\ c.idle = 300 /\ c.heartbeat = 30

\* What the server.yaml of a run says.
IsRunFile(doc, s, g) ==
  /\ doc \in ServerFile /\ doc.listen = s.listen
  /\ doc.cert = "server.crt" /\ doc.key = "server.key"
  /\ doc.maxStreams = 256 /\ doc.handshake = 10 /\ doc.idle = 300 /\ doc.heartbeat = 30
  /\ DOMAIN doc.clients = {1} /\ doc.clients[1] \in ClientEntry
  /\ doc.clients[1].id = Scalar(s.id) /\ doc.clients[1].services = ServicesYAML(s)
  /\ doc.clients[1].pubkey = <<"scalar", <<"ed25519", g>>>>
  /\ doc.clients[1].pqPubkey = <<"scalar", <<"mldsa", g>>>>

\* The entry of a run's client, decoded.
LEMMA RunEntry ==
  ASSUME NEW doc, NEW s, NEW g, IsRunFile(doc, s, g), NEW ce, ce = doc.clients[1]
  PROVE  /\ NodeDecodes(ce.pubkey) /\ NodeDecodes(ce.pqPubkey)
         /\ DecodeEntry(ce).id = Scalar(s.id) /\ DecodeEntry(ce).services = ServicesYAML(s)
         /\ DecodeEntry(ce).pubkey = <<<<"ed25519", g>>>>
         /\ DecodeEntry(ce).pqPubkey = <<<<"mldsa", g>>>>
<1>1. /\ ce \in ClientEntry /\ ce.id = Scalar(s.id) /\ ce.services = ServicesYAML(s)
      /\ ce.pubkey = <<"scalar", <<"ed25519", g>>>> /\ ce.pqPubkey = <<"scalar", <<"mldsa", g>>>>
  BY Zenon DEF IsRunFile
<1>2. NodeDecodes(ce.pubkey) /\ NodeDecodes(ce.pqPubkey)
  BY <1>1 DEF NodeDecodes
<1>3. /\ DecodeEntry(ce).id = ce.id /\ DecodeEntry(ce).services = ce.services
      /\ DecodeEntry(ce).pubkey = StringOrSlice(ce.pubkey)
      /\ DecodeEntry(ce).pqPubkey = StringOrSlice(ce.pqPubkey)
  BY <1>1, <1>2, DecodeEntryType
<1>4. StringOrSlice(ce.pubkey) = <<<<"ed25519", g>>>> /\ StringOrSlice(ce.pqPubkey) = <<<<"mldsa", g>>>>
  BY <1>1 DEF StringOrSlice
<1> QED
  BY <1>1, <1>2, <1>3, <1>4

\* The configuration loaded from such a file.
LEMMA LoadedRunFile ==
  ASSUME NEW doc, NEW s, NEW g, IsRunFile(doc, s, g)
  PROVE  /\ \A e \in Members(doc.clients) : NodeDecodes(e.pubkey) /\ NodeDecodes(e.pqPubkey)
         /\ IsRunConfig(LoadServer(doc), s, g)
<1>1. PICK ce : ce = doc.clients[1]
  BY Zenon
<1>2. doc \in ServerFile /\ DOMAIN doc.clients = {1}
  BY Zenon DEF IsRunFile
<1>3. /\ NodeDecodes(ce.pubkey) /\ NodeDecodes(ce.pqPubkey)
      /\ DecodeEntry(ce).id = Scalar(s.id) /\ DecodeEntry(ce).services = ServicesYAML(s)
      /\ DecodeEntry(ce).pubkey = <<<<"ed25519", g>>>> /\ DecodeEntry(ce).pqPubkey = <<<<"mldsa", g>>>>
  BY <1>1, RunEntry, Zenon
<1>4. \A e \in Members(doc.clients) : NodeDecodes(e.pubkey) /\ NodeDecodes(e.pqPubkey)
  BY <1>1, <1>2, <1>3 DEF Members
<1>5. PICK c : c = LoadServer(doc)
  BY Zenon
<1>6. /\ c \in ServerConfig /\ DOMAIN c.clients = DOMAIN doc.clients
      /\ \A i \in DOMAIN doc.clients : c.clients[i] = DecodeEntry(doc.clients[i])
  BY <1>2, <1>4, <1>5, LoadServerType
<1>7. /\ c.cert = doc.cert /\ c.key = doc.key /\ c.listen = doc.listen
      /\ c.maxStreams = OrDefault(doc.maxStreams, 256) /\ c.handshake = OrDefault(doc.handshake, 10)
      /\ c.idle = OrDefault(doc.idle, 300) /\ c.heartbeat = OrDefault(doc.heartbeat, 30)
  BY <1>2, <1>4, <1>5, LoadServerType
<1>8. c.maxStreams = 256 /\ c.handshake = 10 /\ c.idle = 300 /\ c.heartbeat = 30
  <2>1. doc.maxStreams = 256 /\ doc.handshake = 10 /\ doc.idle = 300 /\ doc.heartbeat = 30
    BY Zenon DEF IsRunFile
  <2> QED
    BY <1>7, <2>1 DEF OrDefault
<1>9. c.cert = "server.crt" /\ c.key = "server.key" /\ c.listen = s.listen
  <2>1. doc.cert = "server.crt" /\ doc.key = "server.key" /\ doc.listen = s.listen
    BY Zenon DEF IsRunFile
  <2> QED
    BY <1>7, <2>1
<1>10. DOMAIN c.clients = {1} /\ c.clients[1] = DecodeEntry(ce)
  BY <1>1, <1>2, <1>6
<1>11. /\ c.clients[1].id = Scalar(s.id) /\ c.clients[1].services = ServicesYAML(s)
       /\ c.clients[1].pubkey = <<<<"ed25519", g>>>> /\ c.clients[1].pqPubkey = <<<<"mldsa", g>>>>
  BY <1>3, <1>10
<1>12. IsRunConfig(c, s, g)
  BY <1>6, <1>8, <1>9, <1>10, <1>11 DEF IsRunConfig
<1> QED
  BY <1>4, <1>5, <1>12, Zenon

\* The configuration a server loads from the file of a run.
LEMMA RunConfig ==
  ASSUME NEW s \in Specs, SpecValidate(s), NEW g \in Nat, NEW doc,
         doc = ServerYAML(s, EncodePubkey(g), EncodePQPubkey(g)), doc # Err \/ Portable(s)
  PROVE  /\ \A e \in Members(doc.clients) : NodeDecodes(e.pubkey) /\ NodeDecodes(e.pqPubkey)
         /\ IsRunConfig(LoadServer(doc), s, g)
<1>1. IsRunFile(doc, s, g)
  BY ServerYAMLParts DEF IsRunFile
<1> QED
  BY <1>1, LoadedRunFile, Zenon

\* A server with the certificate, the client and the services of a run.
Serves(srv, s, g) ==
  /\ Scalar(s.id) \in DOMAIN srv.allowed
  /\ srv.clientPubs[Scalar(s.id)] = {g} /\ srv.clientPQPubs[Scalar(s.id)] = {g}
  /\ DOMAIN srv.allowed[Scalar(s.id)] = ScalarNames(s)

\* A server made of the files of a run, if they validate.
LEMMA RunServerAdmits ==
  ASSUME NEW s \in Specs, SpecValidate(s), NEW g \in Nat, NEW doc,
         doc = ServerYAML(s, EncodePubkey(g), EncodePQPubkey(g)), doc # Err,
         ServerValidate(LoadServer(doc)), NEW files, NEW srv, srv = NewServer(LoadServer(doc), files)
  PROVE  Serves(srv, s, g) /\ srv.cert = ServerTLSConfig(files["server.crt"], files["server.key"])
<1>1. PICK c, ce : c = LoadServer(doc) /\ ce = c.clients[1]
  OBVIOUS
<1>2. /\ c \in ServerConfig /\ 1 \in DOMAIN c.clients
      /\ ce.id = Scalar(s.id) /\ ce.services = ServicesYAML(s)
      /\ ce.pubkey = <<<<"ed25519", g>>>> /\ ce.pqPubkey = <<<<"mldsa", g>>>>
      /\ c.cert = "server.crt" /\ c.key = "server.key"
  <2>1. IsRunConfig(LoadServer(doc), s, g)
    BY RunConfig, Zenon
  <2>2. IsRunConfig(c, s, g)
    BY <1>1, <2>1, Zenon
  <2> QED
    BY <1>1, <2>2 DEF IsRunConfig
<1>3. Admits(srv, ce)
  BY <1>1, <1>2, EntryMaps
<1>4. DecodePubkey(<<"ed25519", g>>) = g /\ DecodePQPubkey(<<"mldsa", g>>) = g
  BY ErrAssumption DEF DecodePubkey, DecodePQPubkey
<1>5. Members(ce.pubkey) = {<<"ed25519", g>>} /\ Members(ce.pqPubkey) = {<<"mldsa", g>>}
  BY <1>2, MembersOf
<1>6. PubsOf(ce) = {g} /\ PQPubsOf(ce) = {g}
  BY <1>4, <1>5 DEF PubsOf, PQPubsOf, AllKeys
<1>7. Names(ce.services) = ScalarNames(s)
  BY <1>2, ServicesYAMLParts
<1> QED
  BY <1>1, <1>2, <1>3, <1>6, <1>7, Zenon DEF Admits, NewServer, Serves

\* The server that starts from the files of a run.
LEMMA StackServerOfRun ==
  ASSUME GenInv, NEW s \in Specs, SpecValidate(s), NEW g \in Nat, FromRun(s, g), StackServerStarts
  PROVE  Serves(StackServer, s, g) /\ StackServer.cert = g
<1>1. PICK files, doc : files = Mounted("server compose") /\ doc = files["server.yaml"]
  BY Zenon
<1>2. ServerLoads(doc) /\ ~NewServerFails(LoadServer(doc), files)
  BY <1>1, Zenon DEF StackServerStarts, ServerStarts
<1>3. doc # Err
  BY <1>2 DEF ServerLoads, Decodes
<1>4. DOMAIN disk = AllFiles /\ {"server.yaml", "server.crt", "server.key"} \subseteq AllFiles
  BY Zenon DEF GenInv, AllFiles, ServerFiles
<1>5. \A f \in AllFiles : files[f] \in {Err, disk[f]}
  BY <1>1, <1>4, Zenon DEF Mounted
<1>6. doc = ServerYAML(s, EncodePubkey(g), EncodePQPubkey(g))
  <2>1. doc = disk["server.yaml"]
    BY <1>1, <1>3, <1>4, <1>5, Zenon
  <2>2. disk["server.yaml"] \in {Err, FileOf(s, g, "server.yaml")}
    BY <1>4 DEF FromRun
  <2>3. FileOf(s, g, "server.yaml") = ServerYAML(s, EncodePubkey(g), EncodePQPubkey(g))
    BY DEF FileOf
  <2> QED
    BY <1>3, <2>1, <2>2, <2>3
<1>7. ServerValidate(LoadServer(doc))
  BY <1>2 DEF ServerLoads
<1>8. PICK srv : srv = NewServer(LoadServer(doc), files)
  OBVIOUS
<1>9. srv = StackServer
  BY <1>1, <1>8, Zenon DEF StackServer, ServerFrom
<1>10. Serves(srv, s, g) /\ srv.cert = ServerTLSConfig(files["server.crt"], files["server.key"])
  BY <1>3, <1>6, <1>7, <1>8, RunServerAdmits
<1>11. ServerTLSConfig(files["server.crt"], files["server.key"]) # Err
  <2>1. LoadServer(doc).cert = "server.crt" /\ LoadServer(doc).key = "server.key"
    <3>1. IsRunConfig(LoadServer(doc), s, g)
      BY <1>3, <1>6, RunConfig, Zenon
    <3> QED
      BY <3>1, Zenon DEF IsRunConfig
  <2> QED
    BY <1>2, <2>1 DEF NewServerFails
<1>12. files["server.crt"] # Err /\ files["server.key"] # Err
  BY <1>11, Zenon DEF ServerTLSConfig
<1>13. files["server.crt"] = <<"CERTIFICATE", g>> /\ files["server.key"] = <<"PRIVATE KEY", g>>
  <2>1. files["server.crt"] = disk["server.crt"] /\ files["server.key"] = disk["server.key"]
    BY <1>4, <1>5, <1>12
  <2>2. /\ disk["server.crt"] \in {Err, FileOf(s, g, "server.crt")}
        /\ disk["server.key"] \in {Err, FileOf(s, g, "server.key")}
    BY <1>4 DEF FromRun
  <2> QED
    BY <1>12, <2>1, <2>2, Zenon DEF FileOf
<1>14. ServerTLSConfig(files["server.crt"], files["server.key"]) = g
  <2>1. PICK cert, key : cert = files["server.crt"] /\ key = files["server.key"]
    OBVIOUS
  <2>2. ServerTLSConfig(cert, key) = Err \/ ServerTLSConfig(cert, key) = cert[2]
    BY Zenon DEF ServerTLSConfig
  <2>3. cert = <<"CERTIFICATE", g>>
    BY <1>13, <2>1, Zenon
  <2>4. cert[2] = g
    BY <2>3
  <2> QED
    BY <1>11, <2>1, <2>2, <2>4
<1> QED
  BY <1>9, <1>10, <1>14

\* The client.yaml of a run, field by field.
LEMMA ClientYAMLParts ==
  ASSUME NEW s \in Specs, SpecValidate(s), NEW g \in Nat, NEW doc,
         doc = ClientYAML(s, <<"hex", g>>), doc # Err \/ Portable(s)
  PROVE  /\ doc \in ClientFile(ScalarNames(s)) /\ DOMAIN doc.services = ScalarNames(s)
         /\ doc.unknown = {} /\ doc.remote = s.address /\ doc.fingerprint = <<"hex", g>>
         /\ doc.id = Scalar(s.id)
         /\ doc.privkeyFile = "client.ed25519" /\ doc.pqPrivkeyFile = "client.mldsa"
         /\ doc.initialBackoff = 1 /\ doc.maxBackoff = 60
         /\ \A n \in ScalarNames(s) : doc.services[n] \in Text \X Int
<1> DEFINE Of(n, sv) == Scalar(sv.name) = n
           target(n) == (CHOOSE sv \in Members(s.services) : Of(n, sv)).client
<1>1. \A sv \in Members(s.services) : sv.client \in Text \X Int
  BY SpecParts, Zenon DEF Members
<1>2. ASSUME NEW n \in ScalarNames(s)
      PROVE  target(n) \in Text \X Int
  <2>1. \E sv \in Members(s.services) : Of(n, sv)
    BY DEF ScalarNames
  <2>2. (CHOOSE sv \in Members(s.services) : Of(n, sv)) \in Members(s.services)
    BY <2>1
  <2> QED
    BY <1>1, <2>2
<1>3. PICK ts : ts = [n \in ScalarNames(s) |-> target(n)]
  BY Zenon
<1>4. doc = [unknown |-> {}, remote |-> s.address, fingerprint |-> <<"hex", g>>,
             id |-> Scalar(s.id), privkeyFile |-> "client.ed25519", pqPrivkeyFile |-> "client.mldsa",
             services |-> ts, initialBackoff |-> 1, maxBackoff |-> 60]
  <2>1. doc # Err \/ ~(~Plain(s.address) \/ \E sv \in Members(s.services) : ~Plain(sv.client))
    BY DEF Portable
  <2> QED
    BY <1>3, <2>1, Zenon DEF ClientYAML, ScalarNames
<1> HIDE DEF target
<1>5. ts \in [ScalarNames(s) -> Text \X Int]
  BY <1>2, <1>3
<1>6. ts \in [ScalarNames(s) -> Address]
  BY <1>5 DEF Address
<1>7. /\ s.address \in Address /\ <<"hex", g>> \in KeyText /\ Scalar(s.id) \in Text
      /\ "client.ed25519" \in Text /\ "client.mldsa" \in Text
  BY SpecParts, Zenon DEF Address, KeyText, Scalar, Text
<1>8. doc \in ClientFile(ScalarNames(s))
  BY <1>4, <1>6, <1>7 DEF ClientFile
<1> QED
  BY <1>4, <1>5, <1>8

\* A client with the keys, the pin and the services of a run.
Requests(clt, s, g) ==
  /\ clt.pin = g /\ clt.priv = g /\ clt.pqPriv = g
  /\ clt.cfg.id = Scalar(s.id) /\ DOMAIN clt.cfg.services = ScalarNames(s)

\* The client that starts from the files of a run.
LEMMA StackClientOfRun ==
  ASSUME GenInv, NEW s \in Specs, SpecValidate(s), NEW g \in Nat, FromRun(s, g), StackClientStarts
  PROVE  Requests(StackClient, s, g)
<1>1. PICK files, doc, cfg, clt : /\ files = Mounted("client compose") /\ doc = files["client.yaml"]
                                  /\ cfg = LoadClient(doc) /\ clt = NewClient(cfg, files)
  BY Zenon
<1>2. clt = StackClient
  BY <1>1, Zenon DEF StackClient, ClientFrom
<1>3. ClientLoads(doc) /\ ~NewClientFails(cfg, files)
  BY <1>1, Zenon DEF StackClientStarts, ClientStarts
<1>4. doc # Err
  BY <1>3 DEF ClientLoads, Decodes
<1>5. DOMAIN disk = AllFiles /\ {"client.yaml", "client.ed25519", "client.mldsa"} \subseteq AllFiles
  BY Zenon DEF GenInv, AllFiles, ClientFiles
<1>6. \A f \in AllFiles : files[f] \in {Err, disk[f]}
  BY <1>1, <1>5, Zenon DEF Mounted
<1>7. \A f \in AllFiles : files[f] \in {Err, FileOf(s, g, f)}
  BY <1>6 DEF FromRun
<1>8. /\ FileOf(s, g, "client.yaml") = ClientYAML(s, <<"hex", g>>)
      /\ FileOf(s, g, "client.ed25519") = PrivkeyPEM(g)
      /\ FileOf(s, g, "client.mldsa") = PQPrivkeyPEM(g)
  BY DEF FileOf
<1>9. doc = ClientYAML(s, <<"hex", g>>)
  BY <1>1, <1>4, <1>5, <1>7, <1>8, Zenon
<1>10. /\ doc \in ClientFile(ScalarNames(s)) /\ DOMAIN doc.services = ScalarNames(s)
       /\ doc.fingerprint = <<"hex", g>> /\ doc.id = Scalar(s.id)
       /\ doc.privkeyFile = "client.ed25519" /\ doc.pqPrivkeyFile = "client.mldsa"
  BY <1>4, <1>9, ClientYAMLParts
<1>11. /\ DOMAIN cfg.services = ScalarNames(s) /\ cfg.id = Scalar(s.id)
       /\ cfg.fingerprint = <<"hex", g>>
       /\ cfg.privkeyFile = "client.ed25519" /\ cfg.pqPrivkeyFile = "client.mldsa"
  BY <1>1, <1>10, LoadClientType, Zenon
<1>12. /\ clt.cfg = cfg /\ clt.pin = ParseFingerprint(cfg.fingerprint)
       /\ clt.priv = LoadPrivkeyPEM(files["client.ed25519"])
       /\ clt.pqPriv = LoadPQPrivkeyPEM(files["client.mldsa"])
       /\ clt.priv # Err /\ clt.pqPriv # Err
  BY <1>1, <1>3, <1>11, Zenon DEF NewClient, NewClientFails
<1>13. clt.pin = g
  BY <1>11, <1>12 DEF ParseFingerprint
<1>14. files["client.ed25519"] # Err /\ files["client.mldsa"] # Err
  BY <1>12 DEF LoadPrivkeyPEM, LoadPQPrivkeyPEM
<1>15. files["client.ed25519"] = <<"ed25519", g>> /\ files["client.mldsa"] = <<"mldsa", g>>
  BY <1>5, <1>7, <1>8, <1>14 DEF PrivkeyPEM, PQPrivkeyPEM
<1>16. clt.priv = g /\ clt.pqPriv = g
  BY <1>12, <1>15 DEF LoadPrivkeyPEM, LoadPQPrivkeyPEM
<1> QED
  BY <1>2, <1>11, <1>12, <1>13, <1>16 DEF Requests

\* Files of two runs never make a pair: whenever both directories can be started,
\* also in the middle of a Generate that replaces them or after one that failed,
\* the server accepts the client.
THEOREM GenerationsDoNotMix == GenSpec => []NoMixedGenerations
<1>1. ASSUME GenInv
      PROVE  NoMixedGenerations
  <2> SUFFICES ASSUME StackServerStarts, StackClientStarts
               PROVE  Accepts(StackServer, StackClient)
    BY DEF NoMixedGenerations
  <2>1. ~(\A f \in AllFiles : disk[f] = Err)
    <3>1. PICK files : files = Mounted("server compose")
      BY Zenon
    <3>2. files["server.yaml"] # Err
      BY <3>1, Zenon DEF StackServerStarts, ServerStarts, ServerLoads, Decodes
    <3>3. DOMAIN disk = AllFiles /\ "server.yaml" \in AllFiles
      BY <1>1, Zenon DEF GenInv, AllFiles, ServerFiles
    <3> QED
      BY <3>1, <3>2, <3>3, Zenon DEF Mounted
  <2>2. PICK s \in Specs, g \in Nat : SpecValidate(s) /\ FromRun(s, g)
    BY <1>1, <2>1 DEF GenInv, OneRun
  <2>3. Serves(StackServer, s, g) /\ StackServer.cert = g
    BY <1>1, <2>2, StackServerOfRun
  <2>4. Requests(StackClient, s, g)
    BY <1>1, <2>2, StackClientOfRun
  <2> QED
    BY <2>3, <2>4 DEF Serves, Requests, Accepts
<1> QED
  BY <1>1, GenInvariant, PTL

-----------------------------------------------------------------------------
(* Every complete run starts.                                              *)

\* The mounted files of a complete run.
LEMMA MountedOfRun ==
  ASSUME GenInv, Complete
  PROVE  /\ gen \in Nat /\ spec \in Specs /\ SpecValidate(spec)
         /\ disk["server compose"] = ServerCompose(spec)
         /\ LET files == Mounted("server compose")
            IN  /\ files["server.yaml"] = ServerYAML(spec, EncodePubkey(gen), EncodePQPubkey(gen))
                /\ files["server.crt"] = <<"CERTIFICATE", gen>>
                /\ files["server.key"] = <<"PRIVATE KEY", gen>>
         /\ LET files == Mounted("client compose")
            IN  /\ files["client.yaml"] = ClientYAML(spec, <<"hex", gen>>)
                /\ files["client.ed25519"] = <<"ed25519", gen>>
                /\ files["client.mldsa"] = <<"mldsa", gen>>
<1>1. gen \in Nat /\ spec \in Specs /\ SpecValidate(spec) /\ DOMAIN disk = AllFiles
  BY DEF GenInv, Complete
<1>2. {"server.crt", "server.key", "server.yaml", "server compose", "client.ed25519", "client.mldsa",
       "client.yaml", "client compose"} \subseteq AllFiles
  BY DEF AllFiles, ServerFiles, ClientFiles
<1>3. \A f \in AllFiles : disk[f] = FileOf(spec, gen, f)
  BY DEF Complete
<1>4. PICK sc, cc : sc = ServerCompose(spec) /\ cc = ClientCompose(spec)
  OBVIOUS
<1>5. sc # Err /\ cc # Err
  BY <1>1, <1>4, ComposeAssumption
<1>6. /\ sc.mounts = {"server.crt", "server.key", "server.yaml"}
      /\ cc.mounts = {"client.ed25519", "client.mldsa", "client.yaml"}
  BY <1>4 DEF ServerCompose, ClientCompose
<1>7. disk["server compose"] = sc /\ disk["client compose"] = cc
  BY <1>2, <1>3, <1>4, Zenon DEF FileOf
<1>8. /\ disk["server.yaml"] = ServerYAML(spec, EncodePubkey(gen), EncodePQPubkey(gen))
      /\ disk["server.crt"] = <<"CERTIFICATE", gen>> /\ disk["server.key"] = <<"PRIVATE KEY", gen>>
      /\ disk["client.yaml"] = ClientYAML(spec, <<"hex", gen>>)
      /\ disk["client.ed25519"] = <<"ed25519", gen>> /\ disk["client.mldsa"] = <<"mldsa", gen>>
  BY <1>2, <1>3, Zenon DEF FileOf, PrivkeyPEM, PQPrivkeyPEM
<1>9. \A f \in sc.mounts : f \in AllFiles => Mounted("server compose")[f] = disk[f]
  BY <1>1, <1>5, <1>7, Zenon DEF Mounted
<1>10. \A f \in cc.mounts : f \in AllFiles => Mounted("client compose")[f] = disk[f]
  BY <1>1, <1>5, <1>7, Zenon DEF Mounted
<1>11. /\ Mounted("server compose")["server.yaml"] = disk["server.yaml"]
       /\ Mounted("server compose")["server.crt"] = disk["server.crt"]
       /\ Mounted("server compose")["server.key"] = disk["server.key"]
  BY <1>2, <1>6, <1>9, Zenon
<1>12. /\ Mounted("client compose")["client.yaml"] = disk["client.yaml"]
       /\ Mounted("client compose")["client.ed25519"] = disk["client.ed25519"]
       /\ Mounted("client compose")["client.mldsa"] = disk["client.mldsa"]
  BY <1>2, <1>6, <1>10, Zenon
<1> QED
  BY <1>1, <1>4, <1>7, <1>8, <1>11, <1>12, Zenon

\* Names that YAML reads as they are written.
LEMMA NamesAsWritten ==
  ASSUME NEW s \in Specs, SpecValidate(s), Portable(s)
  PROVE  /\ Scalar(s.id) = s.id /\ ScalarNames(s) = Names(s.services)
         /\ \A i \in DOMAIN s.services : Scalar(s.services[i].name) = s.services[i].name
         /\ "" \notin Names(s.services)
<1>1. \A sv \in Members(s.services) : Scalar(sv.name) = sv.name /\ sv.name # ""
  BY Zenon DEF Portable, Names, Scalar, SpecValidate
<1>2. Scalar(s.id) = s.id
  BY Zenon DEF Portable, Scalar
<1>3. ScalarNames(s) = Names(s.services) /\ "" \notin Names(s.services)
  BY <1>1, Zenon DEF ScalarNames, Names
<1> QED
  BY <1>1, <1>2, <1>3, SpecParts, Zenon

\* Services with a name and an address of their own each.
OwnAddresses(w) ==
  /\ w # <<>>
  /\ \A i, j \in DOMAIN w : w[i].name = w[j].name => i = j
  /\ \A i, j \in DOMAIN w : w[i].listen = w[j].listen => i = j
  /\ \A i \in DOMAIN w : w[i].name # "" /\ w[i].listen # <<>> /\ w[i].cidrs = {}

\* Those of a run are such.
LEMMA ServicesApart ==
  ASSUME NEW s \in Specs, SpecValidate(s), Portable(s), NEW w, w = ServicesYAML(s)
  PROVE  OwnAddresses(w)
<1>1. /\ DOMAIN w = DOMAIN s.services
      /\ \A i \in DOMAIN s.services :
           /\ w[i].name = Scalar(s.services[i].name) /\ w[i].cidrs = {}
           /\ w[i].listen = ServerListenForService(s, s.services[i].server)
  BY ServicesYAMLParts
<1>parts. /\ 1 \in DOMAIN s.services /\ s.serverMode \in {"host", "isolated"}
          /\ \A i \in DOMAIN s.services :
               /\ s.services[i].name # ""
               /\ ServerListenForService(s, s.services[i].server) \in Text \X Int
  BY SpecParts, Zenon
<1>2. w # <<>>
  <2>1. 1 \in DOMAIN w
    BY <1>1, <1>parts, Zenon
  <2> QED
    BY <2>1
<1>3. \A i \in DOMAIN w : w[i].name = s.services[i].name /\ w[i].name # ""
  <2>1. \A i \in DOMAIN s.services : Scalar(s.services[i].name) = s.services[i].name
    BY NamesAsWritten, Zenon
  <2> QED
    BY <1>1, <1>parts, <2>1, Zenon
<1>4. \A i, j \in DOMAIN w : w[i].name = w[j].name => i = j
  <2>1. Injective([i \in DOMAIN s.services |-> s.services[i].name])
    BY SpecsAssumption
  <2>2. \A i, j \in DOMAIN s.services : s.services[i].name = s.services[j].name => i = j
    BY <2>1, Zenon DEF Injective
  <2> QED
    BY <1>1, <1>3, <2>2, Zenon
<1>5. \A i \in DOMAIN w : w[i].listen # <<>>
  <2>1. \A a \in Text \X Int : a # <<>>
    OBVIOUS
  <2> QED
    BY <1>1, <1>parts, <2>1, ZenonT(60)
<1>6. ASSUME NEW i \in DOMAIN w, NEW j \in DOMAIN w, w[i].listen = w[j].listen
      PROVE  i = j
  <2>1. PICK a, b : a = s.services[i].server /\ b = s.services[j].server
    BY Zenon
  <2>2. ServerListenForService(s, a) = ServerListenForService(s, b)
    BY <1>1, <1>6, <2>1
  <2>3. CASE s.serverMode = "host"
    <3>1. a = b
      BY <2>2, <2>3 DEF ServerListenForService
    <3> QED
      BY <1>1, <2>1, <3>1, Zenon DEF SpecValidate, Injective
  <2>4. CASE s.serverMode = "isolated"
    <3>1. <<"0.0.0.0", a[2]>> = <<"0.0.0.0", b[2]>>
      BY <2>2, <2>4 DEF ServerListenForService
    <3>2. a[2] = b[2]
      BY <3>1
    <3>3. Injective([k \in DOMAIN s.services |-> s.services[k].server[2]])
      BY <2>4 DEF Portable
    <3> QED
      BY <1>1, <2>1, <3>2, <3>3, Zenon DEF Injective
  <2> QED
    BY <1>parts, <2>3, <2>4, Zenon
<1> QED
  BY <1>1, <1>2, <1>3, <1>4, <1>5, <1>6, Zenon DEF OwnAddresses

\* The validator accepts the server.yaml of a run.
LEMMA RunValidates ==
  ASSUME NEW s \in Specs, SpecValidate(s), Portable(s), NEW g \in Nat, NEW doc,
         doc = ServerYAML(s, EncodePubkey(g), EncodePQPubkey(g))
  PROVE  ServerLoads(doc)
<1>1. PICK c, ce : c = LoadServer(doc) /\ ce = c.clients[1]
  OBVIOUS
<1>services. PICK w : w = ServicesYAML(s)
  OBVIOUS
<1>2. /\ \A e \in Members(doc.clients) : NodeDecodes(e.pubkey) /\ NodeDecodes(e.pqPubkey)
      /\ c \in ServerConfig /\ DOMAIN c.clients = {1} /\ ce.id = Scalar(s.id) /\ ce.services = w
      /\ ce.pubkey = <<<<"ed25519", g>>>> /\ ce.pqPubkey = <<<<"mldsa", g>>>>
      /\ c.listen = s.listen /\ c.cert = "server.crt" /\ c.key = "server.key"
      /\ c.maxStreams = 256 /\ c.handshake = 10 /\ c.idle = 300 /\ c.heartbeat = 30
  <2>1. /\ \A e \in Members(doc.clients) : NodeDecodes(e.pubkey) /\ NodeDecodes(e.pqPubkey)
        /\ IsRunConfig(LoadServer(doc), s, g)
    BY RunConfig, Zenon
  <2>2. IsRunConfig(c, s, g)
    BY <1>1, <2>1, Zenon
  <2> QED
    BY <1>1, <1>services, <2>1, <2>2, Zenon DEF IsRunConfig
<1>3. Decodes(doc)
  BY ServerYAMLParts, ErrAssumption DEF Decodes
<1>own. OwnAddresses(w)
  BY <1>services, ServicesApart
<1>4. /\ \A i, j \in DOMAIN w : w[i].name = w[j].name => i = j
      /\ \A i, j \in DOMAIN w : w[i].listen = w[j].listen => i = j
      /\ \A i \in DOMAIN w : w[i].name # "" /\ w[i].listen # <<>> /\ w[i].cidrs = {}
      /\ w # <<>>
  BY <1>own, Zenon DEF OwnAddresses
<1>5. ValidEntry(ce)
  <2>1. ce.id # ""
    <3>1. Scalar(s.id) = s.id
      BY NamesAsWritten, Zenon
    <3>2. s.id # ""
      BY SpecParts, Zenon
    <3> QED
      BY <1>2, <3>1, <3>2, Zenon
  <2>2. Members(ce.pubkey) = {<<"ed25519", g>>} /\ Members(ce.pqPubkey) = {<<"mldsa", g>>}
    BY <1>2, MembersOf
  <2>3. \A pk \in Members(ce.pubkey) : pk[1] = "ed25519"
    BY <2>2
  <2>4. \A pk \in Members(ce.pqPubkey) : pk[1] = "mldsa"
    BY <2>2
  <2>5. ce.pubkey # <<>> /\ ce.pqPubkey # <<>>
    BY <1>2
  <2>6. Injective([j \in DOMAIN ce.services |-> ce.services[j].name])
    <3>1. Injective([j \in DOMAIN w |-> w[j].name])
      BY <1>4, Zenon DEF Injective
    <3> QED
      BY <1>2, <3>1
  <2>7. \A e \in Members(ce.services) : e.name # "" /\ e.listen # <<>> /\ Garbage \notin e.cidrs
    <3>1. \A e \in Members(w) : e.name # "" /\ e.listen # <<>> /\ Garbage \notin e.cidrs
      BY <1>4, Zenon DEF Members
    <3> QED
      BY <1>2, <3>1, Zenon
  <2> QED
    BY <1>2, <1>4, <2>1, <2>3, <2>4, <2>5, <2>6, <2>7, Zenon DEF ValidEntry
<1>6. \A e \in Members(c.clients) : ValidEntry(e)
  BY <1>1, <1>2, <1>5 DEF Members
<1>7. UniqueListens(c)
  <2>1. Positions(c) = {1} \X DOMAIN w
    BY <1>1, <1>2 DEF Positions
  <2>2. ASSUME NEW e \in Positions(c), NEW f \in Positions(c), ListenAt(c, e) = ListenAt(c, f)
        PROVE  e = f
    <3>1. PICK i, j \in DOMAIN w : e = <<1, i>> /\ f = <<1, j>>
      BY <2>1
    <3>2. w[i].listen = w[j].listen
      BY <1>1, <1>2, <2>2, <3>1, Zenon DEF ListenAt
    <3> QED
      BY <1>4, <3>1, <3>2, Zenon
  <2> QED
    BY <2>2 DEF UniqueListens
<1>8. c.listen # <<>> /\ c.clients # <<>>
  <2>1. s.listen # <<>>
    BY Zenon DEF SpecValidate
  <2>2. DOMAIN c.clients # {}
    BY <1>2
  <2>3. c.clients # <<>>
    BY <2>2
  <2> QED
    BY <1>2, <2>1, <2>3
<1>9. Injective([i \in DOMAIN c.clients |-> c.clients[i].id])
  BY <1>2 DEF Injective
<1>10. ServerValidate(c)
  BY <1>2, <1>6, <1>7, <1>8, <1>9 DEF ServerValidate
<1> QED
  BY <1>1, <1>2, <1>3, <1>10, Zenon DEF ServerLoads

\* The server of a complete run starts.
LEMMA ServerOfRunStarts ==
  ASSUME GenInv, Complete, Portable(spec)
  PROVE  StackServerStarts
<1>1. PICK files, doc : files = Mounted("server compose") /\ doc = files["server.yaml"]
  BY Zenon
<1>cfg. PICK c : c = LoadServer(doc)
  OBVIOUS
<1>2. gen \in Nat /\ spec \in Specs /\ SpecValidate(spec)
  BY MountedOfRun, Zenon
<1>3. /\ doc = ServerYAML(spec, EncodePubkey(gen), EncodePQPubkey(gen))
      /\ files["server.crt"] = <<"CERTIFICATE", gen>> /\ files["server.key"] = <<"PRIVATE KEY", gen>>
  BY <1>1, MountedOfRun, Zenon
<1>4. ServerLoads(doc)
  BY <1>2, <1>3, RunValidates, Zenon
<1>5. /\ DOMAIN c.clients = {1} /\ c.cert = "server.crt" /\ c.key = "server.key"
      /\ c.clients[1].pubkey = <<<<"ed25519", gen>>>> /\ c.clients[1].pqPubkey = <<<<"mldsa", gen>>>>
  <2>1. doc = ServerYAML(spec, EncodePubkey(gen), EncodePQPubkey(gen))
    BY <1>3, Zenon
  <2> QED
    <3>1. IsRunConfig(c, spec, gen)
      BY <1>cfg, <1>2, <2>1, RunConfig, Zenon
    <3> QED
      BY <3>1, Zenon DEF IsRunConfig
<1>6. ServerTLSConfig(files[c.cert], files[c.key]) # Err
  <2>1. PICK cert, key : cert = <<"CERTIFICATE", gen>> /\ key = <<"PRIVATE KEY", gen>>
    BY Zenon
  <2>2. key[1] = "PRIVATE KEY" /\ key[2] = gen /\ cert[2] = gen
    BY <2>1, Zenon
  <2>3. cert # Err /\ key # Err /\ gen # Garbage /\ gen # Err
    <3>1. cert \in KeyText /\ key \in KeyText
      BY <1>2, <2>1, Zenon DEF KeyText, Text
    <3> QED
      BY <1>2, <3>1, ErrAssumption
  <2>4. cert = <<"CERTIFICATE", key[2]>>
    BY <2>1, <2>2, Zenon
  <2>5. ServerTLSConfig(cert, key) = cert[2]
    BY <2>2, <2>3, <2>4, Zenon DEF ServerTLSConfig
  <2> QED
    BY <1>3, <1>5, <2>1, <2>2, <2>3, <2>5, Zenon
<1>7. PICK ce : ce = c.clients[1]
  OBVIOUS
<1>8. DecodePubkey(<<"ed25519", gen>>) = gen /\ DecodePQPubkey(<<"mldsa", gen>>) = gen
  BY <1>2, ErrAssumption DEF DecodePubkey, DecodePQPubkey
<1>9. Members(ce.pubkey) = {<<"ed25519", gen>>} /\ Members(ce.pqPubkey) = {<<"mldsa", gen>>}
  BY <1>5, <1>7, MembersOf
<1>10. PubsOf(ce) = {gen} /\ PQPubsOf(ce) = {gen}
  BY <1>8, <1>9 DEF PubsOf, PQPubsOf, AllKeys
<1>11. Err \notin PubsOf(ce) /\ Err \notin PQPubsOf(ce) /\ ce.pqPubkey # <<>>
  BY <1>2, <1>5, <1>7, <1>10, ErrAssumption
<1>12. \A e \in Members(c.clients) : e = ce
  BY <1>5, <1>7 DEF Members
<1>13. ~NewServerFails(c, files)
  BY <1>6, <1>11, <1>12 DEF NewServerFails
<1> QED
  BY <1>1, <1>cfg, <1>4, <1>13, Zenon DEF StackServerStarts, ServerStarts

\* The client of a complete run starts.
LEMMA ClientOfRunStarts ==
  ASSUME GenInv, Complete, Portable(spec)
  PROVE  StackClientStarts
<1>1. PICK files, doc : files = Mounted("client compose") /\ doc = files["client.yaml"]
  BY Zenon
<1>names. PICK names : names = ScalarNames(spec)
  OBVIOUS
<1>2. gen \in Nat /\ spec \in Specs /\ SpecValidate(spec)
  BY MountedOfRun, Zenon
<1>3. /\ doc = ClientYAML(spec, <<"hex", gen>>)
      /\ files["client.ed25519"] = <<"ed25519", gen>> /\ files["client.mldsa"] = <<"mldsa", gen>>
  BY <1>1, MountedOfRun, Zenon
<1>4. /\ doc \in ClientFile(names) /\ DOMAIN doc.services = names
      /\ doc.unknown = {} /\ doc.remote = spec.address /\ doc.fingerprint = <<"hex", gen>>
      /\ doc.id = Scalar(spec.id)
      /\ doc.privkeyFile = "client.ed25519" /\ doc.pqPrivkeyFile = "client.mldsa"
      /\ doc.initialBackoff = 1 /\ doc.maxBackoff = 60
      /\ \A n \in names : doc.services[n] \in Text \X Int
  BY <1>2, <1>3, <1>names, ClientYAMLParts
<1>5. names = Names(spec.services) /\ Scalar(spec.id) = spec.id /\ "" \notin names
  BY <1>2, <1>names, NamesAsWritten, Zenon
<1>6. doc # Err
  BY <1>2, <1>4, <1>5, SpecsAssumption, Zenon
<1>7. PICK c : c = LoadClient(doc)
  OBVIOUS
<1>8. c = doc
  <2>1. OrDefault(doc.initialBackoff, 1) = doc.initialBackoff /\ OrDefault(doc.maxBackoff, 60) = doc.maxBackoff
    BY <1>4 DEF OrDefault
  <2>2. c = [doc EXCEPT !.initialBackoff = doc.initialBackoff, !.maxBackoff = doc.maxBackoff]
    BY <1>7, <2>1, Zenon DEF LoadClient, ClientDefaults
  <2> QED
    BY <1>4, <2>2, Zenon DEF ClientFile
<1>9. ClientValidate(doc)
  <2>1. spec.address # <<>> /\ spec.id # ""
    BY <1>2, Zenon DEF SpecValidate
  <2>2. names # {}
    <3>1. 1 \in DOMAIN spec.services
      BY <1>2, SpecParts, Zenon
    <3> QED
      BY <1>names, <3>1, Zenon DEF ScalarNames, Members
  <2>3. \A n \in names : n # "" /\ doc.services[n] # <<>>
    <3>1. \A a \in Text \X Int : a # <<>>
      OBVIOUS
    <3> QED
      BY <1>4, <1>5, <3>1, Zenon
  <2>4. doc.fingerprint[1] = "hex"
    BY <1>4
  <2>5. /\ doc.remote # <<>> /\ doc.id # "" /\ DOMAIN doc.services # {}
        /\ doc.privkeyFile # "" /\ doc.pqPrivkeyFile # ""
    BY <1>4, <1>5, <2>1, <2>2, Zenon
  <2>6. \A n \in DOMAIN doc.services : n # "" /\ doc.services[n] # <<>>
    BY <1>4, <2>3, Zenon
  <2>7. doc.initialBackoff > 0 /\ doc.maxBackoff > 0 /\ doc.maxBackoff >= doc.initialBackoff
    BY <1>4
  <2> QED
    BY <2>4, <2>5, <2>6, <2>7, Zenon DEF ClientValidate
<1>10. ClientLoads(doc)
  BY <1>4, <1>6, <1>7, <1>8, <1>9 DEF ClientLoads, Decodes
<1>11. gen # Err /\ gen # Garbage
  BY <1>2, ErrAssumption
<1>12. <<"ed25519", gen>> # Err /\ <<"mldsa", gen>> # Err
  <2>1. <<"ed25519", gen>> \in KeyText /\ <<"mldsa", gen>> \in KeyText
    BY <1>2, Zenon DEF KeyText, Text
  <2> QED
    BY <2>1, ErrAssumption
<1>13. /\ LoadPrivkeyPEM(<<"ed25519", gen>>) = gen /\ LoadPQPrivkeyPEM(<<"mldsa", gen>>) = gen
       /\ ParseFingerprint(<<"hex", gen>>) = gen
  BY <1>11, <1>12 DEF LoadPrivkeyPEM, LoadPQPrivkeyPEM, ParseFingerprint
<1>14. PICK clt : clt = NewClient(doc, files)
  OBVIOUS
<1>15. clt.priv = gen /\ clt.pqPriv = gen /\ clt.pin = gen
  BY <1>3, <1>4, <1>13, <1>14 DEF NewClient
<1>16. ~NewClientFails(doc, files)
  BY <1>11, <1>14, <1>15 DEF NewClientFails
<1> QED
  BY <1>1, <1>7, <1>8, <1>10, <1>16, Zenon DEF StackClientStarts, ClientStarts

\* If every specification that Load accepts is portable, what a successful run of
\* Generate has written starts, on both sides.
THEOREM CompleteRunsStart ==
  ASSUME \A s \in Specs : SpecValidate(s) => Portable(s)
  PROVE  GenSpec => []StackStarts
<1>1. ASSUME GenInv
      PROVE  StackStarts
  <2> SUFFICES ASSUME exit = "ok"
               PROVE  StackServerStarts /\ StackClientStarts
    BY DEF StackStarts
  <2>1. Complete
    BY <1>1 DEF GenInv
  <2>2. Portable(spec)
    BY <2>1 DEF Complete
  <2> QED
    BY <1>1, <2>1, <2>2, ServerOfRunStarts, ClientOfRunStarts
<1> QED
  BY <1>1, GenInvariant, PTL

\* The ports that the container of a specification publishes.
LEMMA PublishedPorts ==
  ASSUME NEW s
  PROVE  {p[2] : p \in ServerPublishedPorts(s)}
           = {s.listen[2]} \cup {sv.server[2] : sv \in Members(s.services)}
<1>1. \A addr : HostPortMapping(addr)[2] = addr[2]
  BY DEF HostPortMapping
<1>2. ServerPublishedPorts(s)
        = {HostPortMapping(s.listen)} \cup {HostPortMapping(sv.server) : sv \in Members(s.services)}
  BY DEF ServerPublishedPorts
<1> QED
  BY <1>1, <1>2

\* The listeners of an isolated server, by the names StackReachable uses.
ListensFor(listen, s) ==
  /\ "" \in DOMAIN listen /\ listen[""] = s.listen
  /\ \A n \in DOMAIN listen : n = "" \/ \E i \in DOMAIN s.services : n = s.services[i].name
  /\ \A i \in DOMAIN s.services : s.services[i].name \in DOMAIN listen
  /\ \A i \in DOMAIN s.services : listen[s.services[i].name][1] = "0.0.0.0"
  /\ \A i \in DOMAIN s.services : listen[s.services[i].name][2] = s.services[i].server[2]

\* Nothing is missed.
Reached(listen, ports) ==
  /\ \A n \in DOMAIN listen : listen[n][1] \in Wildcard
  /\ \A m, n \in DOMAIN listen : listen[m][2] = listen[n][2] => m = n
  /\ {listen[n][2] : n \in DOMAIN listen} = {p[2] : p \in ports}

\* The configuration of the server of a complete run.
LEMMA ConfigOfRun ==
  ASSUME GenInv, Complete, Portable(spec)
  PROVE  /\ StackServer.cfg.clients[1].services = ServicesYAML(spec)
         /\ StackServer.cfg.listen = spec.listen
<1>1. PICK doc : doc = ServerYAML(spec, EncodePubkey(gen), EncodePQPubkey(gen))
  OBVIOUS
<1>2. gen \in Nat /\ spec \in Specs /\ SpecValidate(spec)
  BY MountedOfRun, Zenon
<1>3. StackServer.cfg = LoadServer(doc)
  <2>1. Mounted("server compose")["server.yaml"] = doc
    BY <1>1, MountedOfRun, Zenon
  <2> QED
    BY <2>1, Zenon DEF StackServer, ServerFrom, NewServer
<1>4. /\ LoadServer(doc).clients[1].services = ServicesYAML(spec)
      /\ LoadServer(doc).listen = spec.listen
  <2>1. IsRunConfig(LoadServer(doc), spec, gen)
    BY <1>1, <1>2, RunConfig, Zenon
  <2> QED
    BY <2>1, Zenon DEF IsRunConfig
<1> QED
  BY <1>3, <1>4

\* What it listens on.
LEMMA ListenersOfRun ==
  ASSUME GenInv, Complete, Portable(spec), spec.serverMode = "isolated", NEW listen,
         listen = LET cfg == StackServer.cfg
                  IN  [n \in Names(cfg.clients[1].services) \cup {""} |->
                         IF n = "" THEN cfg.listen ELSE ServiceMap(cfg.clients[1].services)[n]]
  PROVE  ListensFor(listen, spec)
<1>services. PICK w : w = ServicesYAML(spec)
  BY Zenon
<1>2. gen \in Nat /\ spec \in Specs /\ SpecValidate(spec)
  BY MountedOfRun, Zenon
<1>4. StackServer.cfg.clients[1].services = w /\ StackServer.cfg.listen = spec.listen
  BY <1>services, ConfigOfRun, Zenon
<1>5. /\ w \in Seq(ServiceEntry) /\ DOMAIN w = DOMAIN spec.services
      /\ \A i \in DOMAIN w : w[i].name = Scalar(spec.services[i].name)
      /\ \A i \in DOMAIN w : w[i].listen = ServerListenForService(spec, spec.services[i].server)
  BY <1>2, <1>services, ServicesYAMLParts, Zenon
<1>6. \A i \in DOMAIN w : w[i].name = spec.services[i].name
  <2>1. \A i \in DOMAIN spec.services : Scalar(spec.services[i].name) = spec.services[i].name
    BY <1>2, NamesAsWritten, Zenon
  <2> QED
    BY <1>5, <2>1, Zenon
<1>own. OwnAddresses(w)
  BY <1>2, <1>services, ServicesApart, Zenon
<1>7. /\ \A i, j \in DOMAIN w : w[i].name = w[j].name => i = j
      /\ \A i \in DOMAIN w : w[i].name # ""
  BY <1>own, Zenon DEF OwnAddresses
<1>8. \A i \in DOMAIN w : ServiceMap(w)[w[i].name] = w[i].listen
  <2>1. Injective([j \in DOMAIN w |-> w[j].name])
    BY <1>7, Zenon DEF Injective
  <2> QED
    BY <1>5, <2>1, ServiceMapExact, Zenon
<1>9. Names(w) = {spec.services[i].name : i \in DOMAIN spec.services}
  <2>1. Names(w) = {w[i].name : i \in DOMAIN w}
    BY Zenon DEF Names, Members
  <2> QED
    BY <1>5, <1>6, <2>1, Zenon
<1>10. listen = [n \in Names(w) \cup {""} |-> IF n = "" THEN spec.listen ELSE ServiceMap(w)[n]]
  BY <1>4, Zenon
<1>11. DOMAIN listen = Names(w) \cup {""} /\ listen[""] = spec.listen
  BY <1>10, Zenon
<1>12. ASSUME NEW i \in DOMAIN spec.services
       PROVE  /\ spec.services[i].name \in DOMAIN listen
              /\ listen[spec.services[i].name][1] = "0.0.0.0"
              /\ listen[spec.services[i].name][2] = spec.services[i].server[2]
  <2>1. PICK n : n = spec.services[i].name
    BY Zenon
  <2>2. n \in Names(w) /\ n # "" /\ w[i].name = n
    BY <1>5, <1>6, <1>7, <1>9, <2>1, Zenon
  <2>3. listen[n] = ServiceMap(w)[n] /\ n \in DOMAIN listen
    BY <1>10, <2>2, Zenon
  <2>4. ServiceMap(w)[n] = ServerListenForService(spec, spec.services[i].server)
    BY <1>5, <1>8, <2>2, Zenon
  <2>5. listen[n] = <<"0.0.0.0", spec.services[i].server[2]>>
    BY <2>3, <2>4, Zenon DEF ServerListenForService
  <2>6. listen[n][1] = "0.0.0.0" /\ listen[n][2] = spec.services[i].server[2]
    <3>1. PICK p, q : p = spec.services[i].server[2] /\ q = listen[n]
      BY Zenon
    <3>2. q = <<"0.0.0.0", p>>
      BY <2>5, <3>1, Zenon
    <3>3. q[1] = "0.0.0.0" /\ q[2] = p
      BY <3>2, Zenon
    <3> QED
      BY <3>1, <3>3, Zenon
  <2> QED
    BY <2>1, <2>3, <2>6, Zenon
<1>13. \A n \in DOMAIN listen : n = "" \/ \E i \in DOMAIN spec.services : n = spec.services[i].name
  BY <1>9, <1>11, Zenon
<1> QED
  BY <1>11, <1>12, <1>13, Zenon DEF ListensFor

\* Such listeners are on all published ports and on no others, and on no port twice.
LEMMA PortsOfListeners ==
  ASSUME NEW s \in Specs, SpecValidate(s), Portable(s), s.serverMode = "isolated", NEW listen,
         ListensFor(listen, s)
  PROVE  Reached(listen, ServerCompose(s).ports)
<1>1. /\ \A n \in DOMAIN listen : n = "" \/ \E i \in DOMAIN s.services : n = s.services[i].name
      /\ "" \in DOMAIN listen /\ listen[""] = s.listen
  BY Zenon DEF ListensFor
<1>2. /\ s.listen[1] \in Wildcard
      /\ Injective([i \in DOMAIN s.services |-> s.services[i].server[2]])
      /\ \A sv \in Members(s.services) : sv.server[2] # s.listen[2]
  BY DEF Portable
<1>3. \A i \in DOMAIN s.services : /\ s.services[i].name \in DOMAIN listen
                                   /\ listen[s.services[i].name][1] = "0.0.0.0"
                                   /\ listen[s.services[i].name][2] = s.services[i].server[2]
  BY Zenon DEF ListensFor
<1>4. \A n \in DOMAIN listen : listen[n][1] \in Wildcard
  BY <1>1, <1>2, <1>3, Zenon DEF Wildcard
<1>5. \A i, j \in DOMAIN s.services :
        s.services[i].server[2] = s.services[j].server[2] => i = j
  BY <1>2, Zenon DEF Injective
<1>6. \A i \in DOMAIN s.services : s.services[i].server[2] # s.listen[2]
  BY <1>2 DEF Members
<1>7. \A m, n \in DOMAIN listen : listen[m][2] = listen[n][2] => m = n
  <2> SUFFICES ASSUME NEW m \in DOMAIN listen, NEW n \in DOMAIN listen, listen[m][2] = listen[n][2]
               PROVE  m = n
    OBVIOUS
  <2>1. CASE m = "" /\ n = ""
    BY <2>1, Zenon
  <2>2. ASSUME NEW i \in DOMAIN s.services, m = s.services[i].name, n = ""
        PROVE  FALSE
    BY <1>1, <1>3, <1>6, <2>2, Zenon
  <2>3. ASSUME NEW i \in DOMAIN s.services, n = s.services[i].name, m = ""
        PROVE  FALSE
    BY <1>1, <1>3, <1>6, <2>3, Zenon
  <2>4. ASSUME NEW i \in DOMAIN s.services, m = s.services[i].name,
               NEW j \in DOMAIN s.services, n = s.services[j].name
        PROVE  m = n
    BY <1>3, <1>5, <2>4
  <2> QED
    BY <1>1, <2>1, <2>2, <2>3, <2>4, Zenon
<1>8. {listen[n][2] : n \in DOMAIN listen}
        = {s.listen[2]} \cup {sv.server[2] : sv \in Members(s.services)}
  <2>1. PICK ps : ps = {s.listen[2]} \cup {sv.server[2] : sv \in Members(s.services)}
    BY Zenon
  <2>2. \A p : p \in ps <=> p = s.listen[2] \/ \E i \in DOMAIN s.services : p = s.services[i].server[2]
    BY <2>1 DEF Members
  <2>3. ASSUME NEW n \in DOMAIN listen
        PROVE  listen[n][2] \in ps
    <3>1. CASE n = ""
      BY <1>1, <2>2, <3>1, Zenon
    <3>2. ASSUME NEW i \in DOMAIN s.services, n = s.services[i].name
          PROVE  listen[n][2] \in ps
      BY <1>3, <2>2, <3>2
    <3> QED
      BY <1>1, <3>1, <3>2, Zenon
  <2>4. ASSUME NEW p \in ps
        PROVE  \E n \in DOMAIN listen : p = listen[n][2]
    <3>1. CASE p = s.listen[2]
      BY <1>1, <3>1, Zenon
    <3>2. ASSUME NEW i \in DOMAIN s.services, p = s.services[i].server[2]
          PROVE  \E n \in DOMAIN listen : p = listen[n][2]
      <4>1. s.services[i].name \in DOMAIN listen /\ listen[s.services[i].name][2] = p
        BY <1>3, <3>2
      <4> QED
        BY <4>1
    <3> QED
      BY <2>2, <3>1, <3>2
  <2>5. {listen[n][2] : n \in DOMAIN listen} = ps
    BY <2>3, <2>4
  <2> QED
    BY <2>1, <2>5
<1>9. ServerCompose(s).ports = ServerPublishedPorts(s)
  BY DEF ServerCompose
<1>10. {listen[n][2] : n \in DOMAIN listen} = {p[2] : p \in ServerCompose(s).ports}
  BY <1>8, <1>9, PublishedPorts, Zenon
<1> QED
  BY <1>4, <1>7, <1>10, Zenon DEF Reached

\* If every specification that Load accepts is portable, then a complete run's
\* isolated server is reached at every address of its specification: it listens
\* inside on all the ports the container publishes and on no others, for connections
\* from outside, and on no port twice.
THEOREM CompleteRunsAreReachable ==
  ASSUME \A s \in Specs : SpecValidate(s) => Portable(s)
  PROVE  GenSpec => []StackReachable
<1>1. ASSUME GenInv
      PROVE  StackReachable
  <2> SUFFICES ASSUME exit = "ok", StackServerStarts, spec.serverMode = "isolated",
                      NEW listen,
                      listen = LET cfg == StackServer.cfg
                               IN  [n \in Names(cfg.clients[1].services) \cup {""} |->
                                      IF n = "" THEN cfg.listen
                                      ELSE ServiceMap(cfg.clients[1].services)[n]]
               PROVE  Reached(listen, disk["server compose"].ports)
    BY Zenon DEF StackReachable, Reached
  <2>1. Complete
    BY <1>1, Zenon DEF GenInv
  <2>2. Portable(spec) /\ SpecValidate(spec) /\ spec \in Specs
    BY <2>1, Zenon DEF Complete
  <2>3. ListensFor(listen, spec)
    BY <1>1, <2>1, <2>2, ListenersOfRun, Zenon
  <2>4. disk["server compose"] = ServerCompose(spec)
    BY <1>1, <2>1, MountedOfRun, Zenon
  <2>5. Reached(listen, ServerCompose(spec).ports)
    BY <2>2, <2>3, PortsOfListeners, Zenon
  <2> QED
    BY <2>4, <2>5, Zenon
<1> QED
  BY <1>1, GenInvariant, PTL

=============================================================================
