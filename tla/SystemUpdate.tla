----------------------------- MODULE SystemUpdate -----------------------------
(***************************************************************************)
(* Updating an installation.  The API compares the version it runs with    *)
(* the latest release and asks the updater container to apply it; the      *)
(* updater is one Node.js process, so an action is what it does between    *)
(* two awaits.  An operation pulls the images, backs the data up, changes  *)
(* TOQUEHUB_IMAGE_TAG in the env file, recreates API and web from it and   *)
(* asks for their health; after the change of tag a failure rolls back.    *)
(* The operations live in the memory of the updater, the env file, the     *)
(* images and the containers outlive it.  A release tag names one version  *)
(* for ever; `latest`, the tag the env examples ship, names the release    *)
(* that was the latest when its images were pulled.                        *)
(***************************************************************************)
EXTENDS Naturals

CONSTANTS
  MaxRequests,  \* bound on the presses of the update button
  MaxVersion,   \* bound on the releases published
  Moving,       \* the tag `latest`
  NoImage       \* not a version: the tag has no images on the host

ASSUME BoundsAssumption == MaxRequests \in Nat /\ MaxVersion \in Nat
ASSUME TagsAssumption == Moving \notin Nat /\ NoImage \notin Nat

\* Requests in the order the button is pressed, each at most one operation.
Requests == 1 .. MaxRequests
NoRequest == 0

VARIABLES
  latest,            \* latest stable release on GitHub
  envTag,            \* TOQUEHUB_IMAGE_TAG in the env file
  running,           \* the version API and web run
  runningTag,        \* the tag they were created from
  image,             \* the version a tag names on the host
  asked,             \* the tag a request asks for, always a release's
  pc, status, prev,  \* each operation: where it is, its status, previousTag
  lastOperation,     \* lastOperationId
  before,            \* history: the version that ran when an operation began
  moved,             \* history: rollbacks that pulled another version
  verified,          \* history: versions a health check accepted
  shared,            \* history: operations that ran beside another
  disturbed          \* history: an overlap, an interruption or a failed rollback

opVars == <<pc, status, prev>>
hostVars == <<running, runningTag, image>>
history == <<before, moved, verified, shared, disturbed>>
vars == <<latest, envTag, hostVars, asked, opVars, lastOperation, history>>

Versions == 0 .. MaxVersion
Tags == Versions \union {Moving}

\* Where a request and its operation are: at the API, on the way with its body
\* unread, created, then in each await of runUpdate.
Working == {"queued", "preflight", "backup", "up", "health", "restore",
            "recreate"}
Places == {"idle", "sent", "body"} \union Working \union {"refused", "done", "lost"}

TypeOK ==
  /\ latest \in Versions /\ running \in Versions
  /\ envTag \in Tags /\ runningTag \in Tags
  /\ image \in [Tags -> Versions \union {NoImage}]
  /\ asked \in [Requests -> Versions]
  /\ pc \in [Requests -> Places]
  /\ status \in [Requests -> {"none", "queued", "running", "success", "error",
                              "rollback"}]
  /\ prev \in [Requests -> Tags]
  /\ lastOperation \in Requests \union {NoRequest}
  /\ before \in [Requests -> Versions]
  /\ moved \subseteq Requests
  /\ verified \subseteq Versions
  /\ shared \subseteq Requests
  /\ disturbed \in BOOLEAN

\* A healthy installation of version 0, from its own tag or from `latest`.
Init ==
  /\ latest = 0 /\ running = 0
  /\ envTag \in {0, Moving} /\ runningTag = envTag
  /\ image = [t \in Tags |-> IF t = envTag THEN 0 ELSE NoImage]
  /\ asked = [r \in Requests |-> 0]
  /\ pc = [r \in Requests |-> "idle"]
  /\ status = [r \in Requests |-> "none"]
  /\ prev = [r \in Requests |-> 0]
  /\ lastOperation = NoRequest
  /\ before = [r \in Requests |-> 0] /\ moved = {}
  /\ verified = {0} /\ shared = {} /\ disturbed = FALSE

-------------------------------------------------------------------------------
(* The release channel and SystemUpdateService *)

\* A release publishes its images and moves `latest` to them.
Release ==
  /\ latest < MaxVersion
  /\ latest' = latest + 1
  /\ UNCHANGED <<envTag, hostVars, asked, opVars, lastOperation, history>>

\* applyUpdate: the API that runs compares its own version with the latest
\* release and posts /apply; otherwise it answers that nothing is to be done.
\* Created from `latest` it takes its version from its package file, which is
\* not the release it was built as.
Ask(r) ==
  /\ pc[r] = "idle"
  /\ \A q \in 1 .. r - 1 : pc[q] # "idle"
  /\ runningTag = Moving \/ latest > running
  /\ asked' = [asked EXCEPT ![r] = latest]
  /\ pc' = [pc EXCEPT ![r] = "sent"]
  /\ UNCHANGED <<latest, envTag, hostVars, status, prev, lastOperation,
                 history>>

-------------------------------------------------------------------------------
(* POST /apply *)

InProgress == {r \in Requests : status[r] \in {"queued", "running"}}

\* The operations not finished, those that roll back included.
Live == {r \in Requests : pc[r] \in Working}

\* An operation is queued or running: 409.  Otherwise the body is awaited.
Check(r) ==
  /\ pc[r] = "sent"
  /\ pc' = [pc EXCEPT ![r] = IF InProgress = {} THEN "body" ELSE "refused"]
  /\ UNCHANGED <<latest, envTag, hostVars, asked, status, prev,
                 lastOperation, history>>

\* The body arrived: createOperation.
Create(r) ==
  /\ pc[r] = "body"
  /\ pc' = [pc EXCEPT ![r] = "queued"]
  /\ status' = [status EXCEPT ![r] = "queued"]
  /\ lastOperation' = r
  /\ shared' = IF Live = {} THEN shared ELSE shared \union Live \union {r}
  /\ disturbed' = (disturbed \/ Live # {})
  /\ UNCHANGED <<latest, envTag, hostVars, asked, prev, before, moved, verified>>

-------------------------------------------------------------------------------
(* runUpdate *)

\* Variant of Start: an operation waits until every other one has ended.
StartAlone(r) ==
  /\ pc[r] = "queued"
  /\ Live = {r}
  /\ prev' = [prev EXCEPT ![r] = envTag]
  /\ status' = [status EXCEPT ![r] = "running"]
  /\ pc' = [pc EXCEPT ![r] = "preflight"]
  /\ before' = [before EXCEPT ![r] = running]
  /\ UNCHANGED <<latest, envTag, hostVars, asked, lastOperation, moved, verified,
                 shared, disturbed>>

\* Reads the env file, then becomes running.
Start(r) ==
  /\ pc[r] = "queued"
  /\ prev' = [prev EXCEPT ![r] = envTag]
  /\ status' = [status EXCEPT ![r] = "running"]
  /\ pc' = [pc EXCEPT ![r] = "preflight"]
  /\ before' = [before EXCEPT ![r] = running]
  /\ UNCHANGED <<latest, envTag, hostVars, asked, lastOperation, moved, verified,
                 shared, disturbed>>

\* Variant of Abandon: a status GET /status does not know.
AbandonFailed(r) ==
  /\ status' = [status EXCEPT ![r] = "failed"]
  /\ pc' = [pc EXCEPT ![r] = "done"]

\* The catch branch while the tag has not been changed.
Abandon(r) ==
  /\ status' = [status EXCEPT ![r] = "error"]
  /\ pc' = [pc EXCEPT ![r] = "done"]

\* The catch branch once it has: the previous tag is written back.
RollBack(r) ==
  /\ status' = [status EXCEPT ![r] = "rollback"]
  /\ envTag' = prev[r]
  /\ pc' = [pc EXCEPT ![r] = "restore"]

\* What the registry gives for a tag, and the host once it pulled it.
Names(t) == IF t = Moving THEN latest ELSE t
Pulled(t) == [image EXCEPT ![t] = Names(t)]

\* Variant of Preflight: the access check does not pull.
PreflightNoPull(r) ==
  /\ pc[r] = "preflight"
  /\ \/ pc' = [pc EXCEPT ![r] = "backup"] /\ UNCHANGED status
     \/ Abandon(r)
  /\ UNCHANGED <<latest, envTag, hostVars, asked, prev, lastOperation,
                 history>>

\* preflight: login, services started and awaited, both images pulled; it may
\* fail before or after the pull.
Preflight(r) ==
  /\ pc[r] = "preflight"
  /\ \/ /\ image' = Pulled(asked[r])
        /\ pc' = [pc EXCEPT ![r] = "backup"]
        /\ UNCHANGED status
     \/ /\ image' \in {image, Pulled(asked[r])}
        /\ Abandon(r)
  /\ UNCHANGED <<latest, envTag, running, runningTag, asked, prev, lastOperation,
                 history>>

\* backup, then the tag is changed in the same turn.
BackUp(r) ==
  /\ pc[r] = "backup"
  /\ \/ /\ envTag' = asked[r]
        /\ pc' = [pc EXCEPT ![r] = "up"]
        /\ UNCHANGED status
     \/ Abandon(r) /\ UNCHANGED envTag
  /\ UNCHANGED <<latest, hostVars, asked, prev, lastOperation, history>>

\* compose up: API and web run what the tag of the env file names on the host.
Recreated ==
  /\ running' = image[envTag]
  /\ runningTag' = envTag

\* compose up that fails: the containers were recreated or not.
MaybeRecreated == Recreated \/ UNCHANGED <<running, runningTag>>

Up(r) ==
  /\ pc[r] = "up"
  /\ \/ /\ Recreated
        /\ pc' = [pc EXCEPT ![r] = "health"]
        /\ UNCHANGED <<envTag, status>>
     \/ MaybeRecreated /\ RollBack(r)
  /\ UNCHANGED <<latest, image, asked, prev, lastOperation, history>>

\* Variant of Health: a failed check rolls nothing back.
HealthNoRollback(r) ==
  /\ pc[r] = "health"
  /\ \/ /\ status' = [status EXCEPT ![r] = "success"]
        /\ verified' = verified \union {running}
     \/ /\ status' = [status EXCEPT ![r] = "rollback"]
        /\ UNCHANGED verified
  /\ pc' = [pc EXCEPT ![r] = "done"]
  /\ UNCHANGED <<latest, envTag, hostVars, asked, prev, lastOperation, before,
                 moved, shared, disturbed>>

\* healthCheck, over its attempts: what runs answers, or never does.
Health(r) ==
  /\ pc[r] = "health"
  /\ \/ /\ status' = [status EXCEPT ![r] = "success"]
        /\ pc' = [pc EXCEPT ![r] = "done"]
        /\ verified' = verified \union {running}
        /\ UNCHANGED envTag
     \/ RollBack(r) /\ UNCHANGED verified
  /\ UNCHANGED <<latest, hostVars, asked, prev, lastOperation, before, moved,
                 shared, disturbed>>

\* A step of the rollback failed.
Surrender(r) ==
  /\ status' = [status EXCEPT ![r] = "error"]
  /\ pc' = [pc EXCEPT ![r] = "done"]
  /\ disturbed' = TRUE

\* The rest of the rollback: login, and the pull of the tag in the env file,
\* whose error is ignored.  Under `latest` it brings the release of that moment.
RestorePull(r) ==
  /\ pc[r] = "restore"
  /\ \/ /\ image' \in {image, Pulled(envTag)}
        /\ pc' = [pc EXCEPT ![r] = "recreate"]
        /\ moved' = IF image'[envTag] # image[envTag] THEN moved \union {r}
                    ELSE moved
        /\ UNCHANGED <<status, disturbed>>
     \/ Surrender(r) /\ UNCHANGED <<image, moved>>
  /\ UNCHANGED <<latest, envTag, running, runningTag, asked, prev, lastOperation,
                 before, verified, shared>>

\* Variant of Restore: the error of compose up is ignored, like that of pull.
RestoreIgnoring(r) ==
  /\ pc[r] = "recreate"
  /\ MaybeRecreated
  /\ pc' = [pc EXCEPT ![r] = "done"]
  /\ UNCHANGED <<latest, envTag, image, asked, status, prev, lastOperation,
                 history>>

\* ... and up.  The status stays "rollback" unless it fails.
Restore(r) ==
  /\ pc[r] = "recreate"
  /\ \/ /\ Recreated
        /\ pc' = [pc EXCEPT ![r] = "done"]
        /\ UNCHANGED <<status, disturbed>>
     \/ MaybeRecreated /\ Surrender(r)
  /\ UNCHANGED <<latest, envTag, image, asked, prev, lastOperation, before, moved,
                 verified, shared>>

\* The updater container stops and comes back: it knows no operation any more.
\* A compose up it had started may have recreated the containers, a pull may
\* have finished.
Crash ==
  /\ \E r \in Requests : pc[r] = "body" \/ r \in Live
  /\ \E T \in SUBSET ({asked[r] : r \in {q \in Requests : pc[q] = "preflight"}}
                     \union {envTag : r \in {q \in Requests : pc[q] = "restore"}}) :
       image' = [t \in Tags |-> IF t \in T THEN Names(t) ELSE image[t]]
  /\ \/ (\E r \in Requests : pc[r] \in {"up", "recreate"}) /\ Recreated
     \/ UNCHANGED <<running, runningTag>>
  /\ disturbed' = (disturbed \/ \E r \in Requests :
                                  pc[r] \in {"up", "health", "restore", "recreate"})
  /\ pc' = [r \in Requests |->
              IF pc[r] = "body" \/ r \in Live THEN "lost" ELSE pc[r]]
  /\ status' = [r \in Requests |-> "none"]
  /\ lastOperation' = NoRequest
  /\ UNCHANGED <<latest, envTag, asked, prev, before, moved, verified, shared>>

-------------------------------------------------------------------------------
Work(r) == \/ Start(r) \/ Preflight(r) \/ BackUp(r) \/ Up(r) \/ Health(r)
           \/ RestorePull(r) \/ Restore(r)

Next ==
  \/ Release
  \/ \E r \in Requests : Ask(r) \/ Check(r) \/ Create(r) \/ Work(r)
  \/ Crash

Spec == Init /\ [][Next]_vars

\* An operation that was created runs: docker commands end and the waits for
\* services and health are bounded by a number of attempts.  Nothing obliges
\* anyone to ask, to publish or to crash.
Fairness == \A r \in Requests : WF_vars(Work(r))

FairSpec == Spec /\ Fairness

-------------------------------------------------------------------------------
(* Properties that hold *)

\* The tag of the env file and the tag that runs always have their images on
\* the host, so recreating the containers needs no network: whatever overlaps,
\* fails or stops, no tag is written before preflight pulled it, and a rollback
\* writes back a tag that had been written.
TagHasImages == image[envTag] # NoImage /\ image[runningTag] # NoImage

\* What GET /status shows of the last operation is true of the installation: a
\* success runs the release asked for; an error left the tag as it was; a
\* finished rollback runs the previous tag, which is the version from before if
\* it is a release's, and also under `latest` if the pull brought no other one
\* and nothing had disturbed the installation.
StatusShownIsTrue ==
  LET r == lastOperation IN
  (r # NoRequest /\ r \notin shared /\ pc[r] = "done") =>
    /\ status[r] = "success" => running = asked[r] /\ envTag = asked[r]
    /\ status[r] = "error" => envTag = prev[r]
    /\ status[r] = "rollback" =>
         /\ envTag = prev[r] /\ running = image[envTag]
         /\ prev[r] # Moving => running = prev[r]
         /\ ~disturbed /\ r \notin moved => running = before[r]

\* As long as no two operations overlapped, none was interrupted after it had
\* changed the tag and no rollback failed, an installation at rest runs what the
\* tag of its env file names, and a health check has accepted that version,
\* unless the tag is `latest` and a rollback pulled another version under it.
RestsOnWorkingVersion ==
  (~disturbed /\ Live = {}) =>
    /\ running = image[envTag]
    /\ running \in verified \/ (envTag = Moving /\ moved # {})

\* Every operation that is created ends, unless the updater stops.
EveryUpdateEnds ==
  \A r \in Requests : pc[r] = "queued" ~> pc[r] \in {"done", "lost"}

===============================================================================
