--------------------------- MODULE ListeningProofs ---------------------------
(***************************************************************************)
(* Proofs about Listening: types, that a detector which says it listens    *)
(* has a live job, that an enabled service in PASSIVE is deaf only for a   *)
(* known reason, and that ACTIVE is watched.  The key is what is still     *)
(* queued: the last mode posted to the main thread is the mode there is.   *)
(***************************************************************************)
EXTENDS Listening, TLAPS

\* No change of the mode waits in s to be told.
Told(s) == \A i \in DOMAIN s : s[i].type # "mode"

\* The last change of the mode in s, if any, is to m.
LastIs(s, m) ==
  \A i \in DOMAIN s :
    s[i].type = "mode" /\ (\A k \in DOMAIN s : k > i => s[k].type # "mode") => s[i].new = m

\* Only an enabled service has a detector that may be needed.
HasDetector == enabled \/ listening => detector # 0

\* The service will be told of the mode it is in.
WillBeTold == overtaken \/ LastIs(main, mode)

Watched == mode = "ACTIVE" /\ Told(main) => activeModeSince \/ overtaken

Hearing == enabled /\ mode = "PASSIVE" /\ Told(main) => listening \/ broken \/ overtaken

\* Whether job k may still be the one that listens.
Alive(js, k) == js[k].pc # "none" /\ ~js[k].cancelled

HasJob ==
  listening => listeningJob # 0 /\ Alive(job, listeningJob) /\ job[listeningJob].of = detector

Inv == TypeOK /\ HasDetector /\ HasJob /\ WillBeTold /\ Watched /\ Hearing

-----------------------------------------------------------------------------
(* What is posted to the main thread *)

\* A change of the mode that is posted is the last one, and waits to be told.
LEMMA PostMode ==
  ASSUME NEW s \in Seq(Post), NEW old \in Mode, NEW new \in Mode
  PROVE  /\ Append(s, ModeChanged(old, new)) \in Seq(Post)
         /\ LastIs(Append(s, ModeChanged(old, new)), new)
         /\ ~Told(Append(s, ModeChanged(old, new)))
<1> DEFINE p == ModeChanged(old, new)
           t == Append(s, p)
<1>1. p \in Post /\ p.type = "mode" /\ p.new = new
  BY DEF ModeChanged, Post
<1> HIDE DEF p
<1>2. /\ t \in Seq(Post) /\ DOMAIN t = 1 .. Len(s) + 1 /\ t[Len(s) + 1] = p
      /\ Len(s) \in Nat
  BY <1>1
<1> HIDE DEF t
<1>3. LastIs(t, new)
  BY <1>1, <1>2 DEF LastIs
<1>4. ~Told(t)
  BY <1>1, <1>2 DEF Told
<1> QED
  BY <1>2, <1>3, <1>4 DEF t, p

\* Anything else that is posted leaves it at that.
LEMMA PostOther ==
  ASSUME NEW s \in Seq(Post), NEW p \in Post, p.type # "mode"
  PROVE  /\ Append(s, p) \in Seq(Post)
         /\ \A m : LastIs(s, m) => LastIs(Append(s, p), m)
         /\ Told(Append(s, p)) <=> Told(s)
<1> DEFINE t == Append(s, p)
<1>1. /\ t \in Seq(Post) /\ DOMAIN t = 1 .. Len(s) + 1 /\ t[Len(s) + 1] = p
      /\ Len(s) \in Nat /\ DOMAIN s = 1 .. Len(s) /\ \A i \in 1 .. Len(s) : t[i] = s[i]
  OBVIOUS
<1> HIDE DEF t
<1>2. ASSUME NEW m, LastIs(s, m) PROVE LastIs(t, m)
  <2> SUFFICES ASSUME NEW i \in DOMAIN t, t[i].type = "mode",
                      \A k \in DOMAIN t : k > i => t[k].type # "mode"
               PROVE  t[i].new = m
    BY DEF LastIs
  <2>1. i \in DOMAIN s /\ s[i] = t[i]
    BY <1>1
  <2>2. \A k \in DOMAIN s : k > i => s[k].type # "mode"
    BY <1>1
  <2> QED
    BY <1>2, <2>1, <2>2 DEF LastIs
<1>3. Told(t) <=> Told(s)
  <2>1. ASSUME Told(t) PROVE Told(s)
    BY <1>1, <2>1 DEF Told
  <2>2. ASSUME Told(s) PROVE Told(t)
    <3> SUFFICES ASSUME NEW i \in DOMAIN t PROVE t[i].type # "mode"
      BY DEF Told
    <3>1. CASE i = Len(s) + 1
      BY <1>1, <3>1
    <3>2. CASE i \in DOMAIN s
      BY <1>1, <2>2, <3>2 DEF Told
    <3> QED
      BY <1>1, <3>1, <3>2
  <2> QED
    BY <2>1, <2>2
<1> QED
  BY <1>1, <1>2, <1>3 DEF t

\* What is taken from the queue may have been the last change of the mode.
LEMMA Popped ==
  ASSUME NEW s \in Seq(Post), s # <<>>
  PROVE  /\ Tail(s) \in Seq(Post) /\ Head(s) \in Post
         /\ \A m : LastIs(s, m) => LastIs(Tail(s), m)
         /\ Told(Tail(s)) /\ Head(s).type # "mode" => Told(s)
         /\ \A m : LastIs(s, m) /\ Told(Tail(s)) /\ Head(s).type = "mode" => Head(s).new = m
<1> DEFINE t == Tail(s)
<1>1. /\ t \in Seq(Post) /\ Head(s) \in Post /\ Head(s) = s[1]
      /\ DOMAIN t = 1 .. Len(s) - 1 /\ Len(s) \in Nat \ {0} /\ DOMAIN s = 1 .. Len(s)
      /\ \A i \in 1 .. Len(s) - 1 : t[i] = s[i + 1]
  OBVIOUS
<1> HIDE DEF t
<1>2. \A k \in DOMAIN s : k > 1 => k - 1 \in DOMAIN t /\ t[k - 1] = s[k]
  BY <1>1
<1>3. ASSUME NEW m, LastIs(s, m) PROVE LastIs(t, m)
  <2> SUFFICES ASSUME NEW i \in DOMAIN t, t[i].type = "mode",
                      \A k \in DOMAIN t : k > i => t[k].type # "mode"
               PROVE  t[i].new = m
    BY DEF LastIs
  <2>1. i + 1 \in DOMAIN s /\ s[i + 1] = t[i]
    BY <1>1
  <2>2. ASSUME NEW k \in DOMAIN s, k > i + 1 PROVE s[k].type # "mode"
    <3>1. k - 1 \in DOMAIN t /\ t[k - 1] = s[k] /\ k - 1 > i
      BY <1>1, <1>2, <2>2
    <3> QED
      BY <3>1
  <2> QED
    BY <1>3, <2>1, <2>2 DEF LastIs
<1>4. ASSUME Told(t) PROVE \A k \in DOMAIN s : k > 1 => s[k].type # "mode"
  BY <1>2, <1>4 DEF Told
<1>5. ASSUME Told(t), Head(s).type # "mode" PROVE Told(s)
  BY <1>1, <1>4, <1>5 DEF Told
<1>6. ASSUME NEW m, LastIs(s, m), Told(t), Head(s).type = "mode" PROVE Head(s).new = m
  BY <1>1, <1>4, <1>6 DEF LastIs
<1> QED
  BY <1>1, <1>3, <1>5, <1>6 DEF t

-----------------------------------------------------------------------------
(* The jobs *)

Places == {"none", "launched", "capturing", "telling", "closing", "failing", "reporting"}

\* Nobody but the detector tells a job to stop or starts one: who is alive in a is so in b.
Keeps(a, b) == \A k \in Jobs : Alive(a, k) => Alive(b, k) /\ b[k].of = a[k].of

\* The AudioRecords change hands, and nothing else.
LEMMA RecordsChange ==
  ASSUME NEW js \in [Jobs -> Job], NEW j \in Jobs,
         NEW out, out \in {Replaced(js, j), Released(js, j)}
  PROVE  out \in [Jobs -> Job] /\ Keeps(js, out)
<1>1. \A k \in Jobs : /\ out[k].pc = js[k].pc /\ out[k].cancelled = js[k].cancelled
                      /\ out[k].of = js[k].of
  BY DEF Replaced, Released, Job
<1>2. out \in [Jobs -> Job]
  BY DEF Replaced, Released, Job
<1> QED
  BY <1>1, <1>2 DEF Keeps, Alive

\* A job goes to another place.
LEMMA JobMoves ==
  ASSUME NEW js \in [Jobs -> Job], NEW j \in Jobs, NEW place \in Places \ {"none"},
         NEW out, out = [js EXCEPT ![j].pc = place]
  PROVE  out \in [Jobs -> Job] /\ Keeps(js, out)
<1>1. js[j] \in Job
  OBVIOUS
<1>2. ASSUME NEW x \in Job
      PROVE  /\ [x EXCEPT !.pc = place] \in Job /\ [x EXCEPT !.pc = place].pc = place
             /\ [x EXCEPT !.pc = place].cancelled = x.cancelled
             /\ [x EXCEPT !.pc = place].of = x.of
  BY DEF Job, Places
<1> DEFINE y == [js[j] EXCEPT !.pc = place]
<1>3. y \in Job /\ y.pc = place /\ y.cancelled = js[j].cancelled /\ y.of = js[j].of
  BY <1>1, <1>2
<1>4. out = [js EXCEPT ![j] = y]
  OBVIOUS
<1> HIDE DEF y
<1>5. out \in [Jobs -> Job] /\ \A k \in Jobs : out[k] = IF k = j THEN y ELSE js[k]
  BY <1>3, <1>4
<1> QED
  BY <1>3, <1>5 DEF Keeps, Alive

\* A job that opens its AudioRecord.
LEMMA JobOpens ==
  ASSUME NEW js \in [Jobs -> Job], NEW j \in Jobs,
         NEW out, out = [js EXCEPT ![j].pc = "capturing", ![j].record = "held"]
  PROVE  out \in [Jobs -> Job] /\ Keeps(js, out)
<1>1. js[j] \in Job
  OBVIOUS
<1>2. ASSUME NEW x \in Job
      PROVE  LET y == [x EXCEPT !.pc = "capturing", !.record = "held"]
             IN  y \in Job /\ y.pc # "none" /\ y.cancelled = x.cancelled /\ y.of = x.of
  BY DEF Job
<1> DEFINE y == [js[j] EXCEPT !.pc = "capturing", !.record = "held"]
<1>3. y \in Job /\ y.pc # "none" /\ y.cancelled = js[j].cancelled /\ y.of = js[j].of
  BY <1>1, <1>2
<1>4. out = [js EXCEPT ![j] = y]
  OBVIOUS
<1> HIDE DEF y
<1>5. out \in [Jobs -> Job] /\ \A k \in Jobs : out[k] = IF k = j THEN y ELSE js[k]
  BY <1>3, <1>4
<1> QED
  BY <1>3, <1>5 DEF Keeps, Alive

\* A job that ends was not alive any more, or ends with all it had.
LEMMA JobGoes ==
  ASSUME NEW js \in [Jobs -> Job], NEW j \in Jobs, js[j].cancelled,
         NEW out, out = [js EXCEPT ![j] = NoJob]
  PROVE  out \in [Jobs -> Job] /\ Keeps(js, out)
BY DEF NoJob, Job, Keeps, Alive

\* A job's step: it may post a report, and no job that is to go on ends by it.
LEMMA JobStepIs ==
  ASSUME TypeOK, JobStep
  PROVE  /\ job' \in [Jobs -> Job] /\ events' \in 0 .. MaxEvents /\ broken' \in BOOLEAN
         /\ broken => broken'
         /\ main' = main \/ \E p \in Post : p.type # "mode" /\ main' = Append(main, p)
         /\ Keeps(job, job')
         /\ JobOnly
<1>1. JobOnly /\ \E j \in Jobs : NeverRuns(j) \/ Leaves(j) \/ Closes(j) \/ Opens(j) \/ OpenFails(j)
                                   \/ Hears(j) \/ ReadFails(j)
  BY DEF JobStep, JobEnds, JobWorks
<1> PICK j \in Jobs : NeverRuns(j) \/ Leaves(j) \/ Closes(j) \/ Opens(j) \/ OpenFails(j)
                      \/ Hears(j) \/ ReadFails(j)
  BY <1>1
<1>2. job \in [Jobs -> Job] /\ events \in 0 .. MaxEvents /\ broken \in BOOLEAN
  BY DEF TypeOK
<1>3. /\ [type |-> "clear", by |-> j] \in Post /\ [type |-> "heard", by |-> j] \in Post
      /\ [type |-> "clear", by |-> j].type # "mode" /\ [type |-> "heard", by |-> j].type # "mode"
  BY DEF Post
<1>4. ASSUME NEW js, js \in [Jobs -> Job], Keeps(job, js), NEW out, Keeps(js, out)
      PROVE  Keeps(job, out)
  BY <1>4 DEF Keeps
<1> DEFINE other == Replaced(job, j)
           freed == Released(job, j)
<1>5. /\ other \in [Jobs -> Job] /\ Keeps(job, other)
      /\ freed \in [Jobs -> Job] /\ Keeps(job, freed)
      /\ freed[j].cancelled = job[j].cancelled
  BY <1>2, RecordsChange DEF Released, Job
<1>6. CASE NeverRuns(j)
  BY <1>1, <1>2, <1>6, JobGoes DEF NeverRuns
<1>7. CASE Opens(j)
  <2>1. job' = [other EXCEPT ![j].pc = "capturing", ![j].record = "held"]
        /\ UNCHANGED <<main, events, broken>>
    BY <1>7 DEF Opens
  <2> HIDE DEF other
  <2>2. job' \in [Jobs -> Job] /\ Keeps(other, job')
    BY <1>5, <2>1, JobOpens
  <2> QED
    BY <1>1, <1>2, <1>4, <1>5, <2>1, <2>2
<1>8. CASE OpenFails(j)
  <2>1. events' \in 0 .. MaxEvents
    BY <1>2, <1>8, EventsAssumption DEF OpenFails
  <2>2. /\ job' = [other EXCEPT ![j].pc = "failing"]
        /\ broken' = TRUE /\ main' = Append(main, [type |-> "clear", by |-> j])
    BY <1>8 DEF OpenFails
  <2> HIDE DEF other
  <2>3. job' \in [Jobs -> Job] /\ Keeps(other, job')
    BY <1>5, <2>2, JobMoves DEF Places
  <2> QED
    BY <1>1, <1>3, <1>4, <1>5, <2>1, <2>2, <2>3
<1>9. CASE Hears(j)
  <2>1. events' \in 0 .. MaxEvents
    BY <1>2, <1>9, EventsAssumption DEF Hears
  <2>2. /\ job' = [job EXCEPT ![j].pc = "telling"]
        /\ UNCHANGED broken /\ main' = Append(main, [type |-> "heard", by |-> j])
    BY <1>9 DEF Hears
  <2>3. job' \in [Jobs -> Job] /\ Keeps(job, job')
    BY <1>2, <2>2, JobMoves DEF Places
  <2> QED
    BY <1>1, <1>2, <1>3, <2>1, <2>2, <2>3
<1>10. CASE ReadFails(j) \/ Leaves(j)
  <2>1. events' \in 0 .. MaxEvents
    BY <1>2, <1>10, EventsAssumption DEF ReadFails, Leaves
  <2>2. /\ job' = [job EXCEPT ![j].pc = "closing"]
        /\ broken' \in {broken, TRUE} /\ UNCHANGED main
    BY <1>10 DEF ReadFails, Leaves
  <2>3. job' \in [Jobs -> Job] /\ Keeps(job, job')
    BY <1>2, <2>2, JobMoves DEF Places
  <2> QED
    BY <1>1, <1>2, <2>1, <2>2, <2>3
<1>11. CASE Closes(j) /\ job[j].cancelled
  <2>1. job' = [freed EXCEPT ![j] = NoJob] /\ UNCHANGED <<main, events, broken>>
    BY <1>11 DEF Closes
  <2> HIDE DEF freed
  <2>2. job' \in [Jobs -> Job] /\ Keeps(freed, job')
    BY <1>5, <1>11, <2>1, JobGoes
  <2> QED
    BY <1>1, <1>2, <1>4, <1>5, <2>1, <2>2
<1>12. CASE Closes(j) /\ ~job[j].cancelled
  <2>1. /\ job' = [freed EXCEPT ![j].pc = "reporting"]
        /\ UNCHANGED <<events, broken>> /\ main' = Append(main, [type |-> "clear", by |-> j])
    BY <1>12 DEF Closes
  <2> HIDE DEF freed
  <2>2. job' \in [Jobs -> Job] /\ Keeps(freed, job')
    BY <1>5, <2>1, JobMoves DEF Places
  <2> QED
    BY <1>1, <1>2, <1>3, <1>4, <1>5, <2>1, <2>2
<1> QED
  BY <1>6, <1>7, <1>8, <1>9, <1>10, <1>11, <1>12

\* stop() leaves no detector that says it listens.
LEMMA StopIs ==
  ASSUME TypeOK, stop
  PROVE  /\ listening' = FALSE /\ listeningJob' \in Jobs \cup {0} /\ job' \in [Jobs -> Job]
         /\ listeningJob' = listeningJob \/ listeningJob' = 0
<1>1. Stopped(job) \in [Jobs -> Job]
  BY DEF TypeOK, Stopped, Job
<1> QED
  BY <1>1 DEF stop, TypeOK

\* start() ends with a live job of the detector's.
LEMMA StartIs ==
  ASSUME TypeOK, HasJob, NEW d \in Nat, start(d), listening => d = detector
  PROVE  /\ listening' = TRUE /\ listeningJob' \in Jobs /\ job' \in [Jobs -> Job]
         /\ Alive(job', listeningJob') /\ job'[listeningJob'].of = d
<1>1. CASE listening /\ listeningJob # 0
  BY <1>1 DEF start, TypeOK, HasJob
<1>2. CASE ~(listening /\ listeningJob # 0)
  <2>1. PICK j \in Free : /\ listening' = TRUE /\ listeningJob' = j
                          /\ job' = [job EXCEPT ![j] = [NoJob EXCEPT !.pc = "launched", !.of = d]]
    BY <1>2 DEF start
  <2>2. [NoJob EXCEPT !.pc = "launched", !.of = d] \in Job
    BY DEF NoJob, Job
  <2> QED
    BY <2>1, <2>2 DEF Free, TypeOK, Alive, NoJob
<1> QED
  BY <1>1, <1>2

-----------------------------------------------------------------------------
(* Every step keeps the invariant *)

\* A change of the mode that has just been posted is still to be told.
LEMMA ModePosted ==
  ASSUME NEW s \in Seq(Post), NEW old \in Mode, mode' \in Mode,
         main' = Append(s, ModeChanged(old, mode'))
  PROVE  main' \in Seq(Post) /\ WillBeTold' /\ Watched' /\ Hearing'
<1>1. main' \in Seq(Post) /\ LastIs(main', mode') /\ ~Told(main')
  BY PostMode
<1> QED
  BY <1>1 DEF WillBeTold, Watched, Hearing

\* The mode stays, what is to be told stays, and nobody falls silent without a reason.
LEMMA ModeStays ==
  ASSUME WillBeTold, Watched, Hearing, UNCHANGED <<mode, enabled>>,
         Told(main') => Told(main), LastIs(main, mode) => LastIs(main', mode),
         activeModeSince => activeModeSince', overtaken => overtaken',
         listening \/ broken => listening' \/ broken'
  PROVE  WillBeTold' /\ Watched' /\ Hearing'
BY DEF WillBeTold, Watched, Hearing

LEMMA JobStepKeeps ==
  ASSUME Inv, JobStep
  PROVE  Inv'
<1>1. /\ job' \in [Jobs -> Job] /\ events' \in 0 .. MaxEvents /\ broken' \in BOOLEAN
      /\ broken => broken'
      /\ main' = main \/ \E p \in Post : p.type # "mode" /\ main' = Append(main, p)
      /\ Keeps(job, job')
      /\ JobOnly
  BY JobStepIs DEF Inv
<1>2. main' \in Seq(Post) /\ (Told(main') <=> Told(main))
      /\ (LastIs(main, mode) => LastIs(main', mode))
  BY <1>1, PostOther DEF Inv, TypeOK
<1>3. TypeOK' /\ HasDetector'
  BY <1>1, <1>2 DEF Inv, TypeOK, HasDetector, JobOnly, service, capture
<1>4. HasJob'
  BY <1>1 DEF Inv, TypeOK, HasJob, Keeps, JobOnly
<1>5. WillBeTold' /\ Watched' /\ Hearing'
  BY <1>1, <1>2, ModeStays DEF Inv, JobOnly, service
<1> QED
  BY <1>3, <1>4, <1>5 DEF Inv

LEMMA TellingKeeps ==
  ASSUME Inv, main # <<>>, Head(main).type = "mode", OnModeChanged(Head(main)),
         UNCHANGED <<completing, events, overtaken>>
  PROVE  Inv'
<1> DEFINE m == Head(main)
<1>1. TypeOK /\ HasJob /\ HasDetector
  BY DEF Inv
<1>2. /\ main' = Tail(main) /\ Judged
      /\ UNCHANGED <<mode, enabled, detector, created, recording, sent, waiting, speaking>>
  BY DEF OnModeChanged
<1>3. /\ main' \in Seq(Post) /\ (LastIs(main, mode) => LastIs(main', mode))
      /\ LastIs(main, mode) /\ Told(main') => m.new = mode
  BY <1>1, <1>2, Popped DEF TypeOK
<1> HIDE DEF m
<1>4. WillBeTold'
  BY <1>2, <1>3 DEF Inv, WillBeTold
<1>5. CASE m.new = "PASSIVE" /\ activeModeSince' = FALSE /\ startWakeWordDetection
           /\ UNCHANGED autoStart
  <2>1. CASE detector = 0
    <3>1. UNCHANGED <<listening, listeningJob, job>> /\ ~enabled
      BY <1>1, <1>5, <2>1 DEF startWakeWordDetection, HasDetector
    <3>2. UNCHANGED broken
      BY <1>2, <3>1 DEF Judged
    <3> QED
      BY <1>1, <1>2, <1>3, <1>4, <1>5, <3>1, <3>2
         DEF Inv, TypeOK, HasJob, HasDetector, Watched, Hearing, WillBeTold
  <2>2. CASE detector # 0
    <3>1. start(detector) /\ detector \in Nat
      BY <1>1, <1>5, <2>2 DEF startWakeWordDetection, TypeOK
    <3>2. /\ listening' = TRUE /\ listeningJob' \in Jobs /\ job' \in [Jobs -> Job]
          /\ Alive(job', listeningJob') /\ job'[listeningJob'].of = detector
      BY <1>1, <3>1, StartIs
    <3>3. listeningJob' # 0
      BY <3>2, JobsAssumption
    <3>4. broken' \in BOOLEAN
      BY <1>1, <1>2 DEF Judged, TypeOK
    <3>5. TypeOK' /\ HasJob' /\ HasDetector'
      BY <1>1, <1>2, <1>3, <1>5, <2>2, <3>2, <3>3, <3>4 DEF TypeOK, HasJob, HasDetector
    <3>6. Watched' /\ Hearing'
      BY <1>2, <1>3, <1>5, <3>2 DEF Inv, Watched, Hearing, WillBeTold
    <3> QED
      BY <1>4, <3>5, <3>6 DEF Inv
  <2> QED
    BY <2>1, <2>2
<1>6. CASE stop /\ \/ m.new = "ACTIVE" /\ activeModeSince' = TRUE /\ autoStart' = autoStart + 1
                   \/ m.new = "OFF" /\ activeModeSince' = FALSE /\ UNCHANGED autoStart
  <2>1. /\ listening' = FALSE /\ listeningJob' \in Jobs \cup {0} /\ job' \in [Jobs -> Job]
        /\ listeningJob' = listeningJob \/ listeningJob' = 0
    BY <1>1, <1>6, StopIs
  <2>2. UNCHANGED broken
    BY <1>2, <2>1 DEF Judged
  <2>3. TypeOK' /\ HasJob' /\ HasDetector'
    <3>1. activeModeSince' \in BOOLEAN /\ autoStart' \in Nat
      <4>1. CASE activeModeSince' = TRUE /\ autoStart' = autoStart + 1
        BY <1>1, <4>1 DEF TypeOK
      <4>2. CASE activeModeSince' = FALSE /\ UNCHANGED autoStart
        BY <1>1, <4>2 DEF TypeOK
      <4> QED
        BY <1>6, <4>1, <4>2
    <3> QED
      BY <1>1, <1>2, <1>3, <2>1, <2>2, <3>1 DEF TypeOK, HasJob, HasDetector
  <2>4. Watched' /\ Hearing'
    BY <1>2, <1>3, <1>6 DEF Inv, Watched, Hearing, WillBeTold
  <2> QED
    BY <1>4, <2>3, <2>4 DEF Inv
<1> QED
  BY <1>5, <1>6 DEF OnModeChanged, m

LEMMA HeardKeeps ==
  ASSUME Inv, main # <<>>, Head(main).type = "heard", OnHeard(Head(main).by),
         UNCHANGED <<completing, events, overtaken>>
  PROVE  Inv'
<1>1. TypeOK /\ HasJob /\ HasDetector
  BY DEF Inv
<1> DEFINE j == Head(main).by
<1>2. /\ Tail(main) \in Seq(Post) /\ (Told(Tail(main)) => Told(main)) /\ j \in Jobs
      /\ (LastIs(main, mode) => LastIs(Tail(main), mode))
  <2>1. Head(main) \in Post
    BY <1>1, Popped DEF TypeOK
  <2>2. j \in Jobs
    BY <2>1 DEF Post
  <2> QED
    BY <1>1, <2>2, Popped DEF TypeOK
<1> HIDE DEF j
<1>3. OnHeard(j)
  BY DEF j
<1>4. UNCHANGED <<service, detector, created, broken, capture>>
  BY <1>3 DEF OnHeard
<1>5. CASE job[j].cancelled \/ job[j].of # detector
  <2>1. /\ main' = Tail(main) /\ job' = [job EXCEPT ![j].pc = "closing"]
        /\ UNCHANGED <<mode, listening, listeningJob>>
    BY <1>3, <1>5 DEF OnHeard
  <2>2. job' \in [Jobs -> Job] /\ Keeps(job, job')
    BY <1>1, <1>2, <2>1, JobMoves DEF TypeOK, Places
  <2>3. TypeOK' /\ HasDetector'
    BY <1>1, <1>2, <1>4, <2>1, <2>2 DEF TypeOK, HasDetector, service, capture
  <2>4. HasJob'
    BY <1>1, <1>4, <2>1, <2>2 DEF TypeOK, HasJob, Keeps
  <2>5. WillBeTold' /\ Watched' /\ Hearing'
    BY <1>2, <1>4, <2>1, ModeStays DEF Inv, service
  <2> QED
    BY <2>3, <2>4, <2>5 DEF Inv
<1>6. CASE ~(job[j].cancelled \/ job[j].of # detector)
  <2> DEFINE stopped == Stopped(job)
  <2>1. /\ listening' = FALSE /\ listeningJob' = 0
        /\ job' = [stopped EXCEPT ![j].pc = "closing"]
        /\ mode' = IF mode = "PASSIVE" THEN "ACTIVE" ELSE mode
        /\ main' = IF mode = "PASSIVE" THEN Append(Tail(main), ModeChanged(mode, "ACTIVE"))
                                       ELSE Tail(main)
    BY <1>3, <1>6 DEF OnHeard
  <2>2. stopped \in [Jobs -> Job]
    BY <1>1 DEF TypeOK, Stopped, Job
  <2> HIDE DEF stopped
  <2>3. job' \in [Jobs -> Job]
    BY <1>2, <2>1, <2>2, JobMoves DEF Places
  <2>4. main' \in Seq(Post) /\ mode' \in Mode /\ WillBeTold' /\ Watched' /\ Hearing'
    <3>1. CASE mode = "PASSIVE"
      <4>1. mode' \in Mode /\ mode \in Mode /\ main' = Append(Tail(main), ModeChanged(mode, mode'))
        BY <2>1, <3>1 DEF Mode
      <4> QED
        BY <1>2, <4>1, ModePosted
    <3>2. CASE mode # "PASSIVE"
      <4>1. UNCHANGED mode /\ main' = Tail(main)
        BY <2>1, <3>2
      <4> QED
        BY <1>1, <1>2, <1>4, <3>2, <4>1 DEF Inv, WillBeTold, Watched, Hearing, service, TypeOK
    <3> QED
      BY <3>1, <3>2
  <2>5. TypeOK' /\ HasDetector' /\ HasJob'
    BY <1>1, <1>4, <2>1, <2>3, <2>4 DEF TypeOK, HasDetector, HasJob, service, capture
  <2> QED
    BY <2>4, <2>5 DEF Inv
<1> QED
  BY <1>5, <1>6

LEMMA ClearKeeps ==
  ASSUME Inv, main # <<>>, Head(main).type = "clear", OnClear(Head(main).by),
         UNCHANGED <<completing, events, overtaken>>
  PROVE  Inv'
<1>1. TypeOK /\ HasJob /\ HasDetector
  BY DEF Inv
<1> DEFINE j == Head(main).by
           rest == Tail(main)
<1>2. /\ rest \in Seq(Post) /\ (Told(rest) => Told(main)) /\ j \in Jobs
      /\ (LastIs(main, mode) => LastIs(rest, mode))
  <2>1. Head(main) \in Post
    BY <1>1, Popped DEF TypeOK
  <2>2. j \in Jobs
    BY <2>1 DEF Post
  <2> QED
    BY <1>1, <2>2, Popped DEF TypeOK
<1>3. OnClear(j)
  OBVIOUS
<1> HIDE DEF j
<1>4. /\ UNCHANGED <<mode, service, detector, created, capture>>
      /\ listening' = (listening /\ (job[j].cancelled \/ job[j].of # detector))
      /\ broken' = (broken \/ listening' # listening)
      /\ listeningJob' = IF listeningJob = j THEN 0 ELSE listeningJob
      /\ \/ /\ job' = [job EXCEPT ![j].pc = "reporting"]
            /\ main' = Append(rest, [type |-> "clear", by |-> j])
         \/ /\ job' = [job EXCEPT ![j] = NoJob]
            /\ main' = rest
  BY <1>3 DEF OnClear
<1> HIDE DEF rest
<1>5. job' \in [Jobs -> Job] /\ \A k \in Jobs \ {j} : job'[k] = job[k]
  <2>1. CASE job' = [job EXCEPT ![j].pc = "reporting"]
    BY <1>1, <1>2, <2>1, JobMoves DEF TypeOK, Places
  <2>2. CASE job' = [job EXCEPT ![j] = NoJob]
    BY <1>1, <2>2 DEF TypeOK, NoJob, Job
  <2> QED
    BY <1>4, <2>1, <2>2
<1>6. /\ main' \in Seq(Post) /\ (Told(main') => Told(main))
      /\ (LastIs(main, mode) => LastIs(main', mode))
  <2>1. CASE main' = rest
    BY <1>2, <2>1
  <2>2. CASE main' = Append(rest, [type |-> "clear", by |-> j])
    <3>1. [type |-> "clear", by |-> j] \in Post /\ [type |-> "clear", by |-> j].type # "mode"
      BY <1>2 DEF Post
    <3> QED
      BY <1>2, <2>2, <3>1, PostOther
  <2> QED
    BY <1>4, <2>1, <2>2
<1>7. TypeOK' /\ HasDetector'
  BY <1>1, <1>4, <1>5, <1>6 DEF TypeOK, HasDetector, service, capture
<1>8. HasJob'
  <2> SUFFICES ASSUME listening'
               PROVE  /\ listeningJob' # 0 /\ Alive(job', listeningJob')
                      /\ job'[listeningJob'].of = detector'
    BY DEF HasJob
  <2>1. listening /\ (job[j].cancelled \/ job[j].of # detector)
    BY <1>4
  <2>2. /\ listeningJob # 0 /\ ~job[listeningJob].cancelled /\ job[listeningJob].pc # "none"
        /\ job[listeningJob].of = detector /\ listeningJob \in Jobs
    BY <1>1, <2>1 DEF HasJob, Alive, TypeOK
  <2>3. listeningJob # j
    BY <2>1, <2>2
  <2>4. listeningJob' = listeningJob /\ job'[listeningJob] = job[listeningJob]
    BY <1>4, <1>5, <2>2, <2>3
  <2> QED
    BY <1>4, <2>2, <2>4 DEF Alive
<1>9. WillBeTold' /\ Watched' /\ Hearing'
  BY <1>1, <1>4, <1>6, ModeStays DEF Inv, service, TypeOK
<1> QED
  BY <1>7, <1>8, <1>9 DEF Inv

LEMMA MainStepKeeps ==
  ASSUME Inv, MainStep
  PROVE  Inv'
<1>1. main # <<>> /\ UNCHANGED <<completing, events, overtaken>>
  BY DEF MainStep
<1>2. CASE Head(main).type = "complete" /\ OnComplete
  <2>1. TypeOK /\ HasJob /\ HasDetector
    BY DEF Inv
  <2>2. Tail(main) \in Seq(Post) /\ mode \in Mode /\ mode' \in Mode
        /\ main' = Append(Tail(main), ModeChanged(mode, mode'))
    BY <1>1, <1>2, <2>1, Popped
       DEF OnComplete, transitionToPassive, transitionToPassiveFrom, TypeOK, Mode
  <2>3. main' \in Seq(Post) /\ WillBeTold' /\ Watched' /\ Hearing'
    BY <2>2, ModePosted
  <2>4. UNCHANGED <<service, detection, capture>>
    BY <1>2 DEF OnComplete
  <2>5. TypeOK' /\ HasDetector' /\ HasJob'
    BY <1>1, <2>1, <2>2, <2>3, <2>4
       DEF TypeOK, HasDetector, HasJob, service, detection, capture
  <2> QED
    BY <2>3, <2>5 DEF Inv
<1> QED
  BY <1>1, <1>2, TellingKeeps, HeardKeeps, ClearKeeps DEF MainStep

LEMMA WatchdogKeeps ==
  ASSUME Inv, Watchdog
  PROVE  Inv'
<1>1. TypeOK /\ HasJob /\ HasDetector
  BY DEF Inv
<1>2. mode \in Mode /\ mode' \in Mode /\ main' = Append(main, ModeChanged(mode, mode'))
  BY <1>1 DEF Watchdog, transitionToPassive, transitionToPassiveFrom, TypeOK, Mode
<1>3. main' \in Seq(Post) /\ WillBeTold' /\ Watched' /\ Hearing'
  BY <1>1, <1>2, ModePosted DEF TypeOK
<1>4. activeModeSince' = FALSE
      /\ UNCHANGED <<enabled, detection, capture, completing, events, overtaken>>
  BY DEF Watchdog
<1>5. TypeOK' /\ HasDetector' /\ HasJob'
  BY <1>1, <1>2, <1>3, <1>4 DEF TypeOK, HasDetector, HasJob, detection, capture
<1> QED
  BY <1>3, <1>5 DEF Inv

LEMMA EnableKeeps ==
  ASSUME Inv, enableWakeWord
  PROVE  Inv'
<1>1. TypeOK /\ HasJob /\ HasDetector
  BY DEF Inv
<1> DEFINE d == IF detector = 0 THEN created + 1 ELSE detector
<1>2. /\ enabled' = TRUE /\ detector' = d /\ created' = IF detector = 0 THEN d ELSE created
      /\ Judged /\ events < MaxEvents /\ events' = events + 1
      /\ UNCHANGED <<activeModeSince, capture, completing, overtaken>>
  BY DEF enableWakeWord
<1>8. \/ mode = "PASSIVE" /\ start(d) /\ UNCHANGED <<mode, main>>
      \/ /\ mode' = "PASSIVE" /\ main' = Append(main, ModeChanged(mode, "PASSIVE"))
         /\ UNCHANGED <<listening, listeningJob, job>>
      \/ mode = "ACTIVE" /\ UNCHANGED <<mode, main, listening, listeningJob, job>>
  BY DEF enableWakeWord, transitionToPassive, transitionToPassiveFrom
<1>3. d \in Nat /\ d # 0 /\ (listening => d = detector)
  BY <1>1 DEF TypeOK, HasDetector
<1> HIDE DEF d
<1>4. broken' \in BOOLEAN /\ events' \in 0 .. MaxEvents /\ detector' \in Nat /\ created' \in Nat
  <2>1. broken' \in BOOLEAN
    BY <1>1, <1>2 DEF Judged, TypeOK
  <2>2. events' \in 0 .. MaxEvents
    BY <1>1, <1>2, EventsAssumption DEF TypeOK
  <2>3. detector' \in Nat /\ created' \in Nat
    BY <1>1, <1>2, <1>3 DEF TypeOK
  <2> QED
    BY <2>1, <2>2, <2>3
<1>5. HasDetector'
  BY <1>2, <1>3 DEF HasDetector
<1>6. CASE mode = "PASSIVE" /\ start(d) /\ UNCHANGED <<mode, main>>
  <2>1. /\ listening' = TRUE /\ listeningJob' \in Jobs /\ job' \in [Jobs -> Job]
        /\ Alive(job', listeningJob') /\ job'[listeningJob'].of = d
    BY <1>1, <1>3, <1>6, StartIs
  <2>2. listeningJob' # 0
    BY <2>1, JobsAssumption
  <2>3. TypeOK' /\ HasJob'
    BY <1>1, <1>2, <1>4, <1>6, <2>1, <2>2 DEF TypeOK, HasJob, capture
  <2>4. WillBeTold' /\ Watched' /\ Hearing'
    BY <1>2, <1>6, <2>1 DEF Inv, WillBeTold, Watched, Hearing
  <2> QED
    BY <1>5, <2>3, <2>4 DEF Inv
<1>7. ASSUME UNCHANGED <<listening, listeningJob, job>>,
             \/ mode' = "PASSIVE" /\ main' = Append(main, ModeChanged(mode, "PASSIVE"))
             \/ mode = "ACTIVE" /\ UNCHANGED <<mode, main>>
      PROVE  Inv'
  <2>1. HasJob'
    BY <1>1, <1>2, <1>3, <1>7 DEF HasJob
  <2>2. UNCHANGED broken
    BY <1>2, <1>7 DEF Judged
  <2>3. main' \in Seq(Post) /\ mode' \in Mode /\ WillBeTold' /\ Watched' /\ Hearing'
    <3>1. CASE mode' = "PASSIVE" /\ main' = Append(main, ModeChanged(mode, "PASSIVE"))
      <4>1. mode \in Mode /\ mode' \in Mode /\ main' = Append(main, ModeChanged(mode, mode'))
        BY <1>1, <3>1 DEF TypeOK, Mode
      <4> QED
        BY <1>1, <4>1, ModePosted DEF TypeOK
    <3>2. CASE mode = "ACTIVE" /\ UNCHANGED <<mode, main>>
      BY <1>1, <1>2, <3>2 DEF Inv, TypeOK, WillBeTold, Watched, Hearing
    <3> QED
      BY <1>7, <3>1, <3>2
  <2>4. TypeOK'
    BY <1>1, <1>2, <1>4, <1>7, <2>3 DEF TypeOK, capture
  <2> QED
    BY <1>5, <2>1, <2>3, <2>4 DEF Inv
<1> QED
  <2>1. CASE mode = "ACTIVE" /\ UNCHANGED <<mode, main, listening, listeningJob, job>>
    BY <1>7, <2>1
  <2>2. CASE mode = "PASSIVE" /\ start(d) /\ UNCHANGED <<mode, main>>
    BY <1>6, <2>2
  <2>3. CASE /\ mode' = "PASSIVE" /\ main' = Append(main, ModeChanged(mode, "PASSIVE"))
             /\ UNCHANGED <<listening, listeningJob, job>>
    BY <1>7, <2>3
  <2> QED
    BY <1>8, <2>1, <2>2, <2>3

LEMMA DisableKeeps ==
  ASSUME Inv, disableWakeWord
  PROVE  Inv'
<1>1. TypeOK /\ HasJob /\ HasDetector
  BY DEF Inv
<1>2. /\ enabled' = FALSE /\ mode' = "OFF" /\ stop /\ detector' = 0
      /\ main' = IF mode = "OFF" THEN main ELSE Append(main, ModeChanged(mode, "OFF"))
      /\ events < MaxEvents /\ events' = events + 1
      /\ UNCHANGED <<activeModeSince, created, broken, capture, completing, overtaken>>
  BY DEF disableWakeWord
<1>3. listening' = FALSE /\ listeningJob' \in Jobs \cup {0} /\ job' \in [Jobs -> Job]
  BY <1>1, <1>2, StopIs
<1>4. main' \in Seq(Post) /\ WillBeTold' /\ Watched' /\ Hearing'
  <2>1. CASE mode = "OFF"
    BY <1>1, <1>2, <2>1 DEF Inv, TypeOK, WillBeTold, Watched, Hearing
  <2>2. CASE mode # "OFF"
    <3>1. mode \in Mode /\ mode' \in Mode /\ main' = Append(main, ModeChanged(mode, mode'))
      BY <1>1, <1>2, <2>2 DEF TypeOK, Mode
    <3> QED
      BY <1>1, <3>1, ModePosted DEF TypeOK
  <2> QED
    BY <2>1, <2>2
<1>5. events' \in 0 .. MaxEvents
  BY <1>1, <1>2, EventsAssumption DEF TypeOK
<1>6. TypeOK' /\ HasDetector' /\ HasJob'
  BY <1>1, <1>2, <1>3, <1>4, <1>5 DEF TypeOK, HasDetector, HasJob, capture, Mode
<1> QED
  BY <1>4, <1>6 DEF Inv

LEMMA CaptureStepKeeps ==
  ASSUME Inv, CaptureStep
  PROVE  Inv'
<1>1. TypeOK /\ HasJob /\ HasDetector
  BY DEF Inv
<1>2. UNCHANGED <<service, detection>>
  BY DEF CaptureStep, onMicClick, AutoStart, stopCapture, cancelCapture, onDismiss,
         sendTextCommand, Transcript, Response, NoResponse, onDone, Complete
<1>3. /\ autoStart' \in Nat /\ recording' \in BOOLEAN /\ sent' \in Nat /\ waiting' \in Nat
      /\ speaking' \in BOOLEAN
  <2>1. autoStart' \in Nat /\ sent' \in Nat /\ waiting' \in Nat
    BY <1>1 DEF TypeOK, CaptureStep, onMicClick, AutoStart, stopCapture, cancelCapture, onDismiss,
           sendTextCommand, Transcript, Response, NoResponse, onDone, Complete, capture
  <2>2. recording' \in BOOLEAN /\ speaking' \in BOOLEAN
    BY <1>1 DEF TypeOK, CaptureStep, onMicClick, AutoStart, stopCapture, cancelCapture, onDismiss,
           sendTextCommand, Transcript, Response, NoResponse, onDone, Complete, startCapture, capture
  <2> QED
    BY <2>1, <2>2
<1>4. completing' \in Mode \cup {"none"} /\ overtaken' \in BOOLEAN /\ (overtaken => overtaken')
  BY <1>1 DEF TypeOK, CaptureStep, onMicClick, AutoStart, stopCapture, cancelCapture, onDismiss,
         sendTextCommand, Transcript, Response, NoResponse, onDone, Complete
<1>5. events' \in 0 .. MaxEvents
  BY <1>1, EventsAssumption
     DEF TypeOK, CaptureStep, onMicClick, AutoStart, stopCapture, cancelCapture, onDismiss,
         sendTextCommand, Transcript, Response, NoResponse, onDone, Complete
<1>6. main' \in Seq(Post) /\ mode' \in Mode /\ WillBeTold' /\ Watched' /\ Hearing'
  <2>1. CASE UNCHANGED <<mode, main>>
    BY <1>1, <1>2, <1>4, <2>1, ModeStays DEF Inv, TypeOK, service, detection
  <2>2. CASE Transcript
    <3>1. UNCHANGED mode /\ main' \in {main, Append(main, [type |-> "complete"])}
      BY <2>2 DEF Transcript
    <3>2. [type |-> "complete"] \in Post /\ [type |-> "complete"].type # "mode"
      BY DEF Post
    <3>3. /\ main' \in Seq(Post) /\ (Told(main') => Told(main))
          /\ (LastIs(main, mode) => LastIs(main', mode))
      BY <1>1, <3>1, <3>2, PostOther DEF TypeOK
    <3> QED
      BY <1>1, <1>2, <1>4, <3>1, <3>3, ModeStays DEF Inv, TypeOK, service, detection
  <2>3. CASE cancelCapture
    <3>1. mode \in Mode /\ mode' \in Mode /\ main' = Append(main, ModeChanged(mode, mode'))
      BY <1>1, <2>3 DEF cancelCapture, transitionToPassive, transitionToPassiveFrom, TypeOK, Mode
    <3> QED
      BY <1>1, <3>1, ModePosted DEF TypeOK
  <2>4. CASE onDismiss
    <3>1. mode' = "PASSIVE" /\ "PASSIVE" \in Mode /\ mode \in Mode
      BY <1>1, <2>4 DEF onDismiss, TypeOK, Mode
    <3>2. CASE ~recording
      BY <1>1, <2>4, <3>1, <3>2, ModePosted DEF onDismiss, TypeOK
    <3>3. CASE recording
      <4> DEFINE p == ModeChanged(mode, "PASSIVE")
                 q == ModeChanged("PASSIVE", "PASSIVE")
      <4>1. main' = main \o <<p, q>>
        BY <2>4, <3>3 DEF onDismiss
      <4>2. p \in Post /\ q \in Post /\ Append(main, p) \in Seq(Post) /\ main \in Seq(Post)
        BY <1>1, <3>1, PostMode DEF TypeOK, ModeChanged, Post
      <4> HIDE DEF p
      <4>3. \A x, y \in Post : main \o <<x, y>> = Append(Append(main, x), y)
        BY <4>2
      <4>4. main' = Append(Append(main, p), ModeChanged("PASSIVE", mode'))
        BY <3>1, <4>1, <4>2, <4>3
      <4> QED
        BY <3>1, <4>2, <4>4, ModePosted
    <3> QED
      BY <3>2, <3>3
  <2>5. CASE Complete
    <3>1. /\ completing \in Mode /\ mode \in Mode
          /\ main' = Append(main, ModeChanged(completing, "PASSIVE"))
          /\ mode' = IF completing = "PASSIVE" THEN mode ELSE "PASSIVE"
          /\ overtaken' = (overtaken \/ mode # completing)
      BY <1>1, <2>5 DEF Complete, transitionToPassiveFrom, TypeOK
    <3>2. CASE mode' = "PASSIVE"
      BY <1>1, <3>1, <3>2, ModePosted DEF TypeOK, Mode
    <3>3. CASE mode' # "PASSIVE"
      <4>1. overtaken' /\ mode' \in Mode
        BY <3>1, <3>3
      <4>2. main' \in Seq(Post)
        BY <1>1, <3>1, PostMode DEF TypeOK, Mode
      <4> QED
        BY <4>1, <4>2 DEF WillBeTold, Watched, Hearing
    <3> QED
      BY <3>2, <3>3
  <2> QED
    BY <2>1, <2>2, <2>3, <2>4, <2>5
       DEF CaptureStep, onMicClick, AutoStart, stopCapture, sendTextCommand, Response, NoResponse,
           onDone
<1>7. TypeOK' /\ HasDetector' /\ HasJob'
  BY <1>1, <1>2, <1>3, <1>4, <1>5, <1>6 DEF TypeOK, HasDetector, HasJob, service, detection
<1> QED
  BY <1>6, <1>7 DEF Inv

LEMMA InvStep ==
  ASSUME Inv, [Next]_vars
  PROVE  Inv'
<1>1. CASE UNCHANGED vars
  BY <1>1 DEF Inv, TypeOK, HasDetector, HasJob, WillBeTold, Watched, Hearing, vars, service,
              detection, capture
<1> QED
  BY <1>1, JobStepKeeps, MainStepKeeps, WatchdogKeeps, EnableKeeps, DisableKeeps, CaptureStepKeeps
     DEF Next

LEMMA InvHolds == Spec => []Inv
<1>1. Init => Inv
  <2> SUFFICES ASSUME Init PROVE Inv
    OBVIOUS
  <2>1. NoJob \in Job /\ main \in Seq(Post) /\ DOMAIN main = {}
    BY DEF Init, NoJob, Job
  <2>2. TypeOK
    <3>1. job \in [Jobs -> Job]
      BY <2>1 DEF Init
    <3>2. events \in 0 .. MaxEvents
      BY EventsAssumption DEF Init
    <3>3. mode \in Mode /\ completing \in Mode \cup {"none"}
      BY DEF Init, Mode
    <3> QED
      BY <2>1, <3>1, <3>2, <3>3 DEF Init, TypeOK
  <2>3. WillBeTold
    BY <2>1 DEF WillBeTold, LastIs
  <2>4. HasDetector /\ HasJob /\ Watched /\ Hearing
    BY DEF Init, HasDetector, HasJob, Watched, Hearing
  <2> QED
    BY <2>2, <2>3, <2>4 DEF Inv
<1> QED
  BY <1>1, InvStep, PTL DEF Spec

-----------------------------------------------------------------------------
(* What follows *)

\* Types, in every behaviour of the phone.
THEOREM TypeCorrect == Spec => []TypeOK
<1>1. Inv => TypeOK
  BY DEF Inv
<1> QED
  BY <1>1, InvHolds, PTL

\* A detector that says it listens has a job of its own at work, and one that an enabled
\* service has in PASSIVE is deaf only when a detection broke down or a callback's thread
\* was overtaken.
THEOREM DetectorIsTrueHolds == Spec => []DetectorIsTrue
<1>1. Inv => ListeningIsAlive
  BY DEF Inv, HasJob, Alive, ListeningIsAlive, NoJob
<1>2. Inv => DeafOnlyWhenBroken
  BY DEF Inv, Hearing, DeafOnlyWhenBroken, Settled, Told
<1> QED
  BY <1>1, <1>2, InvHolds, PTL DEF DetectorIsTrue

\* A settled ACTIVE mode is watched, unless the callback's thread was overtaken.
THEOREM ActiveIsWatchedHolds == Spec => []ActiveIsWatched
<1>1. Inv => ActiveIsWatched
  BY DEF Inv, Watched, ActiveIsWatched, Settled, Told
<1> QED
  BY <1>1, InvHolds, PTL
=============================================================================
