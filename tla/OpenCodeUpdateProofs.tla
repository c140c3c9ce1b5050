------------------------- MODULE OpenCodeUpdateProofs -------------------------
(***************************************************************************)
(* Properties of OpenCodeUpdate for any versions, any number of background *)
(* threads and any set of faults.  The argument is one inductive invariant *)
(* in three parts: at most one thread is at work, and then the shared      *)
(* state says so; what that thread has established so far about the        *)
(* candidate, the image and the files; and what a success has left.        *)
(***************************************************************************)
EXTENDS OpenCodeUpdate, TLAPS

Busy == PCs \ {"idle", "error"}

\* One update at a time, and everybody can see that it runs.
OneAtWork ==
    /\ \A k \in Workers : pc[k] \in Busy => state \in Running
    /\ \A j, k \in Workers : pc[j] \in Busy /\ pc[k] \in Busy => j = k

\* What thread k has done before it is where it is.
Achieved(k) ==
    /\ pc[k] \in {"activate", "tag"} => candidate[version[k]].tested
    /\ pc[k] \in {"tag", "persist", "write", "settings", "success"} => state = "activating"
    /\ pc[k] \in {"persist", "write", "settings", "success"} =>
          latest.reports = version[k]
    /\ pc[k] \in {"settings", "success"} => envFile = version[k]
    /\ pc[k] = "success" => configured = version[k]
    /\ pc[k] \in {"activate", "tag"} => candidate[version[k]].reports = version[k]

IInv == /\ TypeOK
        /\ OneAtWork
        /\ \A k \in Workers : Achieved(k)
        /\ latest.tested
        /\ SuccessAgrees

\* What the steps of thread k leave to the other threads.
LEMMA Moves ==
  ASSUME IInv, NEW k \in Workers, NEW from, NEW to \in PCs, Move(k, from, to)
  PROVE  /\ pc[k] = from /\ pc' \in [Workers -> PCs] /\ pc'[k] = to
         /\ \A j \in Workers \ {k} : pc'[j] = pc[j]
  BY DEF IInv, TypeOK, Move, Goto

LEMMA InitIInv == Init => IInv
  <1> SUFFICES ASSUME Init PROVE IInv  OBVIOUS
  <1>1. Initial \in Versions  BY UpdateAssumption
  <1>2. NoImage \in Image /\ latest \in Image
    BY <1>1 DEF Init, NoImage, Image
  <1>3. TypeOK
    BY <1>1, <1>2 DEF Init, TypeOK, States, Running, PCs
  <1>4. OneAtWork /\ \A k \in Workers : Achieved(k)
    BY DEF Init, OneAtWork, Achieved, Busy
  <1> QED BY <1>3, <1>4 DEF Init, IInv, SuccessAgrees

LEMMA RestartIInv == IInv /\ Restart => IInv'
  <1> SUFFICES ASSUME IInv, Restart PROVE IInv'  OBVIOUS
  <1>1. TypeOK'
    BY UpdateAssumption DEF Restart, IInv, TypeOK, States, PCs, images
  <1>2. \A k \in Workers : pc'[k] = "idle"  BY DEF Restart
  <1>3. OneAtWork' /\ \A k \in Workers : Achieved(k)'
    BY <1>2 DEF OneAtWork, Achieved, Busy
  <1>4. latest'.tested /\ SuccessAgrees'
    BY DEF Restart, IInv, SuccessAgrees, images
  <1> QED BY <1>1, <1>3, <1>4 DEF IInv

\* Accepting an update: no thread is at work, so k is the only one.
LEMMA StartIInv ==
  ASSUME IInv, NEW k \in Workers, NEW v \in Versions, StartUpdate(k, v)
  PROVE  IInv'
  <1>1. \A j \in Workers : pc[j] \notin Busy
    BY DEF IInv, OneAtWork, StartUpdate, MayStart
  <1>2. /\ pc' \in [Workers -> PCs] /\ pc'[k] = "claimed"
        /\ \A j \in Workers \ {k} : pc'[j] = pc[j]
    BY DEF IInv, TypeOK, StartUpdate, Goto, PCs
  <1>3. TypeOK'
    BY <1>2 DEF IInv, TypeOK, StartUpdate, States, Running, config, images
  <1>4. OneAtWork'
    BY <1>1, <1>2 DEF OneAtWork, StartUpdate, Running
  <1>5. \A j \in Workers : Achieved(j)'
    BY <1>1, <1>2 DEF Achieved, Busy, PCs, IInv, TypeOK
  <1>6. latest'.tested /\ SuccessAgrees'
    BY DEF IInv, StartUpdate, SuccessAgrees, images
  <1> QED BY <1>3, <1>4, <1>5, <1>6 DEF IInv

\* A thread that is not at work only changes the message.
LEMMA AppendIInv ==
  ASSUME IInv, NEW k \in Workers, AppendError(k)
  PROVE  IInv'
  <1>1. /\ pc[k] = "error" /\ pc' \in [Workers -> PCs] /\ pc'[k] = "idle"
        /\ \A j \in Workers \ {k} : pc'[j] = pc[j]
    BY Moves DEF AppendError, PCs
  <1> QED
    BY <1>1 DEF AppendError, IInv, TypeOK, OneAtWork, Achieved, SuccessAgrees,
                Busy, config, images

\* The steps of the thread at work, up to the activation.
Early(k) == \/ ThreadStarts(k) \/ ThreadFails(k)
            \/ Begin(k) \/ BuildFails(k) \/ BuildHangs(k)
            \/ \E r \in Versions \cup {None} : Built(k, r)
            \/ Tested(k) \/ TestFails(k) \/ Activate(k)
Late(k) == \/ Tag(k) \/ TagFails(k) \/ TruncateFile(k) \/ WriteFile(k) \/ PersistFails(k)
           \/ PersistSetting(k) \/ Success(k) \/ Except(k)

\* Thread k is at work: whatever it does, no other one is.
LEMMA WorkStep ==
  ASSUME IInv, NEW k \in Workers, pc[k] \in Busy,
         \A j \in Workers \ {k} : pc'[j] = pc[j],
         TypeOK', pc'[k] \in Busy => state' \in Running,
         Achieved(k)', latest'.tested, SuccessAgrees'
  PROVE  IInv'
  <1>1. \A j \in Workers \ {k} : pc'[j] \notin Busy
    BY DEF IInv, OneAtWork
  <1>2. OneAtWork'  BY <1>1 DEF OneAtWork
  <1>3. \A j \in Workers \ {k} : Achieved(j)'
    BY <1>1 DEF Achieved, Busy, PCs, IInv, TypeOK
  <1> QED BY <1>2, <1>3 DEF IInv

LEMMA EarlyIInv ==
  ASSUME IInv, NEW k \in Workers, Early(k)
  PROVE  IInv'
  <1>1. PICK from \in {"claimed", "begin", "build", "test", "activate"},
             to \in {"unstarted", "begin", "build", "hung", "test", "activate", "tag",
                     "except"} :
          Move(k, from, to)
    BY DEF Early, ThreadStarts, ThreadFails, Begin, BuildFails, BuildHangs, Built, Tested, TestFails, Activate
  <1>2. /\ pc[k] = from /\ pc' \in [Workers -> PCs] /\ pc'[k] = to
        /\ \A j \in Workers \ {k} : pc'[j] = pc[j]
    BY <1>1, Moves DEF PCs
  <1>3. pc[k] \in Busy /\ state \in Running
    BY <1>2 DEF Busy, PCs, IInv, OneAtWork
  <1>4. UNCHANGED <<latest, config, version, previous>>
    BY DEF Early, ThreadStarts, ThreadFails, Begin, BuildFails, BuildHangs, Built, Tested, TestFails,
           Activate, Say, shared, images
  <1>5. /\ state' \in Running /\ message' \in {message, "progress"}
        /\ Activate(k) => state' = "activating"
    BY <1>3 DEF Early, ThreadStarts, ThreadFails, Begin, BuildFails, BuildHangs, Built, Tested, TestFails,
                Activate, Say, shared, Running
  <1>6. /\ candidate' \in [Versions -> Image]
        /\ Tested(k) => /\ candidate'[version[k]].tested
                        /\ candidate'[version[k]].reports = version[k]
    <2>1. ASSUME NEW r \in Versions \cup {None}, Built(k, r)
          PROVE  candidate' \in [Versions -> Image]
      BY <2>1 DEF Built, IInv, TypeOK, Image
    <2>2. CASE Tested(k)
      BY <2>2 DEF Tested, Matches, IInv, TypeOK, Image
    <2>3. CASE candidate' = candidate /\ ~Tested(k)
      BY <2>3 DEF IInv, TypeOK
    <2>4. Tested(k) => ~\E r \in Versions \cup {None} : Built(k, r)
      BY <1>2 DEF Tested, Built, Move
    <2> QED BY <2>1, <2>2, <2>3, <2>4
            DEF Early, ThreadStarts, ThreadFails, Begin, BuildFails, BuildHangs, TestFails, Activate, images
  <1>7. TypeOK'
    BY <1>2, <1>4, <1>5, <1>6 DEF IInv, TypeOK, States, config
  <1>8. Achieved(k)'
    <2>1. to = "activate" => Tested(k)
      BY <1>2 DEF Early, ThreadStarts, ThreadFails, Begin, BuildFails, BuildHangs, Built, Tested, TestFails,
                  Activate, Move, Goto, IInv, TypeOK
    <2>2. to = "tag" => Activate(k)
      BY <1>2 DEF Early, ThreadStarts, ThreadFails, Begin, BuildFails, BuildHangs, Built, Tested, TestFails,
                  Activate, Move, Goto, IInv, TypeOK
    <2>3. Activate(k) => /\ candidate' = candidate /\ from = "activate"
      BY <1>2 DEF Activate, Move, images
    <2> QED BY <1>2, <1>4, <1>5, <1>6, <2>1, <2>2, <2>3
            DEF Achieved, IInv
  <1>9. latest'.tested /\ SuccessAgrees'
    BY <1>4, <1>5 DEF IInv, SuccessAgrees, Running
  <1> QED BY <1>2, <1>3, <1>5, <1>7, <1>8, <1>9, WorkStep

LEMMA LateIInv ==
  ASSUME IInv, NEW k \in Workers, Late(k)
  PROVE  IInv'
  <1>1. CASE Tag(k)
    <2>1. /\ pc[k] = "tag" /\ pc' \in [Workers -> PCs] /\ pc'[k] = "persist"
          /\ \A j \in Workers \ {k} : pc'[j] = pc[j]
      BY <1>1, Moves DEF Tag, PCs
    <2> QED BY <1>1, <2>1, WorkStep
            DEF Tag, IInv, TypeOK, Achieved, SuccessAgrees, Running, Busy, PCs,
                shared, config
  <1>2. CASE TagFails(k)
    <2>1. /\ pc[k] = "tag" /\ pc' \in [Workers -> PCs] /\ pc'[k] = "except"
          /\ \A j \in Workers \ {k} : pc'[j] = pc[j]
      BY <1>2, Moves DEF TagFails, PCs
    <2> QED BY <1>2, <2>1, WorkStep
            DEF TagFails, IInv, TypeOK, Achieved, SuccessAgrees, Running, Busy,
                PCs, shared, config, images
  <1>3. CASE TruncateFile(k)
    <2>1. /\ pc[k] = "persist" /\ pc' \in [Workers -> PCs] /\ pc'[k] = "write"
          /\ \A j \in Workers \ {k} : pc'[j] = pc[j]
      BY <1>3, Moves DEF TruncateFile, PCs
    <2> QED BY <1>3, <2>1, WorkStep
            DEF TruncateFile, IInv, TypeOK, Achieved, SuccessAgrees, Running,
                Busy, PCs, shared, images
  <1>8. CASE WriteFile(k)
    <2>1. /\ pc[k] = "write" /\ pc' \in [Workers -> PCs] /\ pc'[k] = "settings"
          /\ \A j \in Workers \ {k} : pc'[j] = pc[j]
      BY <1>8, Moves DEF WriteFile, PCs
    <2> QED BY <1>8, <2>1, WorkStep
            DEF WriteFile, IInv, TypeOK, Achieved, SuccessAgrees, Running,
                Busy, PCs, shared, images
  <1>4. CASE PersistFails(k)
    <2>1. PICK from \in {"persist", "write"} : Move(k, from, "except")
      BY <1>4 DEF PersistFails
    <2>2. /\ pc[k] = from /\ pc' \in [Workers -> PCs] /\ pc'[k] = "except"
          /\ \A j \in Workers \ {k} : pc'[j] = pc[j]
      BY <2>1, Moves DEF PCs
    <2>3. envFile' \in {envFile, None, version[k]}
      BY <1>4 DEF PersistFails
    <2> QED BY <1>4, <2>2, <2>3, WorkStep
            DEF PersistFails, IInv, TypeOK, Achieved, SuccessAgrees, Running,
                Busy, PCs, shared, images
  <1>5. CASE PersistSetting(k)
    <2>1. /\ pc[k] = "settings" /\ pc' \in [Workers -> PCs] /\ pc'[k] = "success"
          /\ \A j \in Workers \ {k} : pc'[j] = pc[j]
      BY <1>5, Moves DEF PersistSetting, PCs
    <2> QED BY <1>5, <2>1, WorkStep
            DEF PersistSetting, IInv, TypeOK, Achieved, SuccessAgrees, Running,
                Busy, PCs, images
  <1>6. CASE Success(k)
    <2>1. /\ pc[k] = "success" /\ pc' \in [Workers -> PCs] /\ pc'[k] = "idle"
          /\ \A j \in Workers \ {k} : pc'[j] = pc[j]
      BY <1>6, Moves DEF Success, PCs
    <2> QED BY <1>6, <2>1, WorkStep
            DEF Success, Say, IInv, TypeOK, Achieved, SuccessAgrees, States,
                Busy, PCs, config, images
  <1>7. CASE Except(k)
    <2>1. /\ pc[k] = "except" /\ pc' \in [Workers -> PCs] /\ pc'[k] = "error"
          /\ \A j \in Workers \ {k} : pc'[j] = pc[j]
      BY <1>7, Moves DEF Except, PCs
    <2> QED BY <1>7, <2>1, WorkStep
            DEF Except, Say, IInv, TypeOK, Achieved, SuccessAgrees, States,
                Busy, PCs, config, images
  <1> QED BY <1>1, <1>2, <1>3, <1>4, <1>5, <1>6, <1>7, <1>8 DEF Late

LEMMA NextIInv == IInv /\ [Next]_vars => IInv'
  <1> SUFFICES ASSUME IInv, [Next]_vars PROVE IInv'  OBVIOUS
  <1>1. ASSUME NEW k \in Workers, Work(k) PROVE IInv'
    BY <1>1, EarlyIInv, LateIInv, AppendIInv DEF Work, Early, Late
  <1>2. CASE UNCHANGED vars
    BY <1>2 DEF vars, shared, config, images, IInv, TypeOK, OneAtWork, Achieved,
                SuccessAgrees
  <1> QED BY <1>1, <1>2, StartIInv, RestartIInv DEF Next

THEOREM Invariance == Spec => []IInv
  BY InitIInv, NextIInv, PTL DEF Spec

\* The state of an update is well formed.
THEOREM TypeCorrect == Spec => []TypeOK
  <1>1. IInv => TypeOK  BY DEF IInv
  <1> QED BY <1>1, Invariance, PTL

\* Whatever fails, and however many updates were started, `latest` names an
\* image that passed the smoke test.
THEOREM TestedOnly == Spec => []LatestIsTested
  <1>1. IInv => LatestIsTested  BY DEF IInv, LatestIsTested
  <1> QED BY <1>1, Invariance, PTL

\* A success leaves the image, the setting and the file in agreement.
THEOREM SuccessMeans == Spec => []SuccessAgrees
  <1>1. IInv => SuccessAgrees  BY DEF IInv
  <1> QED BY <1>1, Invariance, PTL

PartStep == latest.reports = envFile /\ latest'.reports # envFile' =>
                state = "activating" /\ latest'.tested

\* Only an activation can part the image from the recorded version.
THEOREM PartOnly == Spec => PartOnlyActivating
  <1>1. ASSUME IInv, [Next]_vars PROVE PartStep
    <2>1. ASSUME NEW k \in Workers, Early(k) \/ AppendError(k)
          PROVE  UNCHANGED <<latest, envFile>>
      BY <2>1 DEF Early, ThreadStarts, ThreadFails, Begin, BuildFails, BuildHangs, Built, Tested,
                  TestFails, Activate, AppendError, config, images
    <2>2. ASSUME NEW k \in Workers, Late(k) PROVE PartStep
      <3>1. CASE Tag(k) \/ TruncateFile(k) \/ WriteFile(k) \/ PersistFails(k)
        BY <1>1, <2>2, <3>1
        DEF Tag, TruncateFile, WriteFile, PersistFails, Move, PartStep, IInv, Achieved,
            images
      <3>2. CASE ~(Tag(k) \/ TruncateFile(k) \/ WriteFile(k) \/ PersistFails(k))
        BY <2>2, <3>2 DEF Late, TagFails, PersistSetting, Success, Except,
                          config, images, PartStep
      <3> QED BY <3>1, <3>2
    <2>3. CASE UNCHANGED vars
      BY <2>3 DEF vars, config, images, PartStep
    <2>4. ASSUME NEW k \in Workers, NEW v \in Versions, StartUpdate(k, v)
          PROVE  UNCHANGED <<latest, envFile>>
      BY <2>4 DEF StartUpdate, config, images
    <2>5. Restart => UNCHANGED <<latest, envFile>>
      BY DEF Restart, images
    <2>6. ASSUME NEW k \in Workers, Work(k) PROVE PartStep
      BY <2>1, <2>2, <2>6 DEF Work, Early, Late, PartStep
    <2> QED BY <1>1, <2>3, <2>4, <2>5, <2>6 DEF Next, PartStep
  <1>2. PartStep => (latest.reports = envFile /\ latest'.reports # envFile' =>
                        state = "activating" /\ latest'.tested)
    BY DEF PartStep
  <1> QED BY <1>1, <1>2, Invariance, PTL DEF Spec, PartOnlyActivating
=============================================================================
