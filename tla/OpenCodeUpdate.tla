---------------------------- MODULE OpenCodeUpdate ----------------------------
(***************************************************************************)
(* The image update an administrator starts from the System page: build a  *)
(* candidate image, smoke-test it, retag it as `latest`, record the        *)
(* version.  start_update admits one update at a time and leaves the work  *)
(* to a background thread; both touch the shared state under a lock, one   *)
(* critical section per action.                                            *)
(*                                                                         *)
(* Simplifications: an image is the version it reports and whether a smoke *)
(* test has passed on it; log lines and times are left out, of the message *)
(* only its kind is kept; of the environment file only its version, and a  *)
(* write that is cut short leaves no version, never a part of one.         *)
(***************************************************************************)
CONSTANTS
    Versions,       \* versions that validate_version accepts
    MetaVersions,   \* those with build metadata, as 1.2.3+abc
    Initial,        \* the version installed and configured at first
    Default,        \* settings.opencode_version when the file names none
    Workers,        \* background threads
    Faults,         \* steps that can fail
    None

AllFaults == {"thread", "build", "wrong", "hang", "run", "tag", "persist", "crash"}

ASSUME UpdateAssumption ==
    /\ MetaVersions \subseteq Versions
    /\ Initial \in Versions \ MetaVersions /\ Default \in Versions
    /\ Faults \subseteq AllFaults
    /\ None \notin Versions

VARIABLES
    state,      \* _STATE.status
    message,    \* the kind of _STATE.message
    previous,   \* _STATE.previous_version
    configured, \* settings.opencode_version
    envFile,    \* OPENCODE_VERSION in control-plane.env, None if it has none
    candidate,  \* candidate[v]: the image tagged with version v
    latest,     \* the image tagged latest
    pc,         \* pc[k]: where background thread k is
    version     \* version[k]: what it updates to

shared == <<state, message, previous>>
images == <<candidate, latest>>
config == <<configured, envFile>>
vars == <<shared, config, images, pc, version>>

Running == {"queued", "building", "testing", "activating"}
States == Running \cup {"idle", "success", "error"}
PCs == {"idle", "claimed", "unstarted", "begin", "build", "hung", "test", "activate",
        "tag", "persist", "write", "settings", "success", "except", "error"}
Image == [reports : Versions \cup {None}, tested : BOOLEAN]
NoImage == [reports |-> None, tested |-> FALSE]

TypeOK ==
    /\ state \in States
    /\ message \in {"none", "progress", "active", "unchanged"}
    /\ previous \in Versions \cup {None}
    /\ configured \in Versions /\ envFile \in Versions \cup {None}
    /\ candidate \in [Versions -> Image] /\ latest \in Image
    /\ pc \in [Workers -> PCs] /\ version \in [Workers -> Versions]

-----------------------------------------------------------------------------
Goto(k, where) == pc' = [pc EXCEPT ![k] = where]
Move(k, from, to) == pc[k] = from /\ Goto(k, to)
Say(st, m) == state' = st /\ message' = m /\ UNCHANGED previous

\* Mutant: nothing keeps a second update out.
Anytime == TRUE

MayStart == state \notin Running

\* start_update: the test and the claim are one critical section.
StartUpdate(k, v) ==
    /\ pc[k] = "idle" /\ MayStart
    /\ state' = "queued" /\ message' = "progress" /\ previous' = configured
    /\ version' = [version EXCEPT ![k] = v]
    /\ Goto(k, "claimed")
    /\ UNCHANGED <<config, images>>

ThreadStarts(k) ==
    /\ Move(k, "claimed", "begin")
    /\ UNCHANGED <<shared, config, images, version>>

\* Thread.start raises, and nobody takes the claim back.
ThreadFails(k) ==
    /\ "thread" \in Faults
    /\ Move(k, "claimed", "unstarted")
    /\ UNCHANGED <<shared, config, images, version>>

Begin(k) ==
    /\ Move(k, "begin", "build")
    /\ Say("building", "progress")
    /\ UNCHANGED <<config, images, version>>

\* Mutant: the build is tagged latest at once.
BuiltAsLatest(k, reported) ==
    /\ Move(k, "build", "test")
    /\ reported = version[k] \/ "wrong" \in Faults
    /\ candidate' = [candidate EXCEPT ![version[k]] =
                       [reports |-> reported, tested |-> FALSE]]
    /\ latest' = candidate'[version[k]]
    /\ Say("testing", "progress")
    /\ UNCHANGED <<config, version>>

\* podman build -t candidate; the image may report another version.
Built(k, reported) ==
    /\ Move(k, "build", "test")
    /\ reported = version[k] \/ "wrong" \in Faults
    /\ candidate' = [candidate EXCEPT ![version[k]] =
                       [reports |-> reported, tested |-> FALSE]]
    /\ Say("testing", "progress")
    /\ UNCHANGED <<config, latest, version>>

BuildFails(k) ==
    /\ "build" \in Faults
    /\ Move(k, "build", "except")
    /\ UNCHANGED <<shared, config, images, version>>

\* The output is read to its end before the timeout applies.
BuildHangs(k) ==
    /\ "hang" \in Faults
    /\ Move(k, "build", "hung")
    /\ UNCHANGED <<shared, config, images, version>>

\* Mutant: whatever the image reports is good.
AnyMatch(v, image) == TRUE

\* The pattern that reads the reported version stops before a "+".
Matches(v, image) == image.reports = v /\ v \notin MetaVersions

Tested(k) ==
    LET v == version[k]
    IN  /\ Move(k, "test", "activate")
        /\ Matches(v, candidate[v])
        /\ candidate' = [candidate EXCEPT ![v].tested = TRUE]
        /\ message' = "progress"
        /\ UNCHANGED <<state, previous, config, latest, version>>

TestFails(k) ==
    /\ Move(k, "test", "except")
    /\ ~Matches(version[k], candidate[version[k]]) \/ "run" \in Faults
    /\ UNCHANGED <<shared, config, images, version>>

Activate(k) ==
    /\ Move(k, "activate", "tag")
    /\ Say("activating", "progress")
    /\ UNCHANGED <<config, images, version>>

Tag(k) ==
    /\ Move(k, "tag", "persist")
    /\ latest' = candidate[version[k]]
    /\ UNCHANGED <<shared, config, candidate, version>>

TagFails(k) ==
    /\ "tag" \in Faults
    /\ Move(k, "tag", "except")
    /\ UNCHANGED <<shared, config, images, version>>

\* _persist_version: opening the file to write empties it.
TruncateFile(k) ==
    /\ Move(k, "persist", "write")
    /\ envFile' = None
    /\ UNCHANGED <<shared, configured, images, version>>

WriteFile(k) ==
    /\ Move(k, "write", "settings")
    /\ envFile' = version[k]
    /\ UNCHANGED <<shared, configured, images, version>>

\* Reading or opening fails, or writing, or the chmod of what has been written.
PersistFails(k) ==
    /\ "persist" \in Faults
    /\ \/ Move(k, "persist", "except") /\ UNCHANGED envFile
       \/ Move(k, "write", "except") /\ envFile' \in {None, version[k]}
    /\ UNCHANGED <<shared, configured, images, version>>

PersistSetting(k) ==
    /\ Move(k, "settings", "success")
    /\ configured' = version[k]
    /\ message' = "progress"
    /\ UNCHANGED <<state, previous, envFile, images, version>>

Success(k) ==
    /\ Move(k, "success", "idle")
    /\ Say("success", "active")
    /\ UNCHANGED <<config, images, version>>

\* Mutants: a status no reader knows; the status stays as it was.
ExceptFailed(k) ==
    /\ Move(k, "except", "error")
    /\ Say("failed", "unchanged")
    /\ UNCHANGED <<config, images, version>>

ExceptSilent(k) ==
    /\ Move(k, "except", "error")
    /\ Say(state, "unchanged")
    /\ UNCHANGED <<config, images, version>>

\* except: "The previous latest image was left unchanged.", whatever failed.
Except(k) ==
    /\ Move(k, "except", "error")
    /\ Say("error", "unchanged")
    /\ UNCHANGED <<config, images, version>>

\* Then the error is appended, which replaces the message once more.
AppendError(k) ==
    /\ Move(k, "error", "idle")
    /\ message' = "progress"
    /\ UNCHANGED <<state, previous, config, images, version>>

\* The process ends, also within a write; the next one reads what the file has.
Restart ==
    /\ "crash" \in Faults
    /\ state' = "idle" /\ message' = "none" /\ previous' = None
    /\ configured' = IF envFile = None THEN Default ELSE envFile
    /\ pc' = [k \in Workers |-> "idle"]
    /\ UNCHANGED <<envFile, images, version>>

-----------------------------------------------------------------------------
Init ==
    /\ state = "idle" /\ message = "none" /\ previous = None
    /\ configured = Initial /\ envFile = Initial
    /\ candidate = [v \in Versions |-> NoImage]
    /\ latest = [reports |-> Initial, tested |-> TRUE]
    /\ pc = [k \in Workers |-> "idle"]
    /\ version = [k \in Workers |-> Initial]

Work(k) ==
    \/ ThreadStarts(k) \/ ThreadFails(k) \/ Begin(k) \/ BuildFails(k) \/ BuildHangs(k)
    \/ \E r \in Versions \cup {None} : Built(k, r)
    \/ Tested(k) \/ TestFails(k) \/ Activate(k) \/ Tag(k) \/ TagFails(k)
    \/ TruncateFile(k) \/ WriteFile(k) \/ PersistFails(k) \/ PersistSetting(k)
    \/ Success(k) \/ Except(k) \/ AppendError(k)

Next ==
    \/ \E k \in Workers : Work(k) \/ \E v \in Versions : StartUpdate(k, v)
    \/ Restart

Spec == Init /\ [][Next]_vars

\* The request that starts a thread goes on, and the thread until it ends.
FairSpec == Spec /\ \A k \in Workers : WF_vars(Work(k))

-----------------------------------------------------------------------------
(* Properties *)

\* New workspaces run a tested image only: between the smoke test and the tag
\* nobody rebuilds the candidate.
LatestIsTested == latest.tested

\* After an update that succeeded the image, the setting and the file that the
\* next process reads name one version, whatever failed before it.
SuccessAgrees ==
    state = "success" => /\ latest.reports = configured
                         /\ envFile = configured

\* The image and the recorded version part only while a tested candidate is
\* being activated: a build or a test that fails, hangs or is cut short by a
\* restart changes neither.
PartOnlyActivating ==
    [][latest.reports = envFile /\ latest'.reports # envFile' =>
          state = "activating" /\ latest'.tested]_vars

\* An update that reports an error has left the previous image in place.
ErrorLeavesLatest ==
    message = "unchanged" => latest.reports = previous

\* An accepted version whose candidate image reports it passes the test.
GoodCandidatePasses ==
    [][\A k \in Workers : pc[k] = "test" /\ pc'[k] = "except" =>
          candidate[version[k]].reports # version[k]]_vars

\* Every update comes to an end, so that another one can be started; only a
\* thread that could not be started, or a build whose output never ends, can
\* keep it from that.
UpdateEnds ==
    state \in Running ~> \/ state \notin Running
                         \/ \E k \in Workers : pc[k] \in {"hung", "unstarted"}

\* Another update can always be started in the end.
UpdateAlwaysEnds == state \in Running ~> state \notin Running
=============================================================================
