--------------------------- MODULE SystemUpdateProofs ---------------------------
(***************************************************************************)
(* Proofs about SystemUpdate, for any number of presses of the button and  *)
(* any number of releases.                                                 *)
(***************************************************************************)
EXTENDS SystemUpdate, TLAPS

(***************************************************************************)
(* The inductive invariant: what an operation knows at each of its awaits. *)
(***************************************************************************)

\* A release tag names its version or has no images.
FixedTags == \A t \in Versions : image[t] \in {t, NoImage}

\* The images an operation may still write the tag of.
KnownTags ==
  \A r \in Requests :
    /\ pc[r] \in {"preflight", "backup", "up", "health", "restore", "recreate"}
         => image[prev[r]] # NoImage
    /\ pc[r] \in {"backup", "up", "health"} => image[asked[r]] # NoImage

\* The last operation, if it never ran beside another, has the installation to
\* itself.
Alone ==
  LET r == lastOperation IN
  (r # NoRequest /\ r \notin shared) =>
    /\ \A q \in Live : q = r
    /\ pc[r] \in {"preflight", "backup", "restore", "recreate"} => envTag = prev[r]
    /\ pc[r] \in {"up", "health"} => envTag = asked[r]
    /\ pc[r] = "health" => running = asked[r]
    /\ pc[r] \in {"restore", "recreate"} => status[r] = "rollback"

\* A tag an installation can rest on.
GoodTag(t) == image[t] \in verified \/ (t = Moving /\ moved # {})

AtRest == running = image[envTag] /\ GoodTag(envTag)

\* What the only operation of an undisturbed installation knows: it can go back
\* to a tag that was good, and to the version from before as long as no pull of
\* it brought another.
UndisturbedAt(r) ==
  /\ pc[r] \in {"queued", "preflight", "backup"} => AtRest
  /\ pc[r] \in {"preflight", "backup"} => before[r] = running
  /\ pc[r] \in {"preflight", "backup", "restore", "recreate"} => envTag = prev[r]
  /\ pc[r] \in {"up", "health", "restore", "recreate"} =>
       /\ GoodTag(prev[r])
       /\ r \notin moved => image[prev[r]] = before[r]
  /\ pc[r] = "health" => running = image[envTag]

Undisturbed ==
  ~disturbed =>
    /\ \A r, q \in Live : r = q
    /\ \A r \in Live : UndisturbedAt(r)

IInv ==
  /\ TypeOK /\ FixedTags /\ TagHasImages /\ KnownTags
  /\ StatusShownIsTrue /\ Alone
  /\ RestsOnWorkingVersion /\ Undisturbed

-------------------------------------------------------------------------------
\* The tags of releases are not `latest`.
LEMMA VersionsAreTags ==
  /\ Versions \subseteq Tags /\ Moving \in Tags /\ Moving \notin Versions
  /\ NoImage \notin Versions
BY TagsAssumption, BoundsAssumption DEF Versions, Tags

\* A pull of a release tag changes no image that was there.
LEMMA PulledKeeps ==
  ASSUME TypeOK, FixedTags, NEW v \in Versions
  PROVE  /\ Pulled(v) \in [Tags -> Versions \union {NoImage}]
         /\ \A t \in Tags : image[t] # NoImage => Pulled(v)[t] = image[t]
         /\ \A t \in Versions : Pulled(v)[t] \in {t, NoImage}
         /\ Pulled(v)[v] # NoImage
BY VersionsAreTags DEF Pulled, Names, TypeOK, FixedTags

\* A pull of any tag leaves every tag that had images with images, and changes
\* no release tag that had them.
LEMMA PulledHas ==
  ASSUME TypeOK, FixedTags, NEW v \in Tags
  PROVE  /\ Pulled(v) \in [Tags -> Versions \union {NoImage}]
         /\ \A t \in Tags : image[t] # NoImage => Pulled(v)[t] # NoImage
         /\ \A t \in Tags : image[t] # NoImage /\ t # Moving => Pulled(v)[t] = image[t]
         /\ \A t \in Tags : t # v => Pulled(v)[t] = image[t]
         /\ \A t \in Versions : Pulled(v)[t] \in {t, NoImage}
BY VersionsAreTags DEF Pulled, Names, TypeOK, FixedTags, Tags

LEMMA InitInv == Init => IInv
<1> SUFFICES ASSUME Init PROVE IInv
  OBVIOUS
<1> USE DEF Init
<1>1. 0 \in Versions
  BY BoundsAssumption DEF Versions
<1>2. TypeOK
  BY <1>1, VersionsAreTags DEF TypeOK, Places, Tags
<1>3. Live = {} /\ lastOperation = NoRequest
  BY DEF Live, Working
<1>4. FixedTags /\ image[envTag] = 0 /\ image[envTag] # NoImage
  BY <1>1, VersionsAreTags, TagsAssumption DEF FixedTags, Tags
<1> QED
  BY <1>2, <1>3, <1>4 DEF IInv, TagHasImages, KnownTags, StatusShownIsTrue, Alone,
                          RestsOnWorkingVersion, Undisturbed

\* A publication changes nothing an operation reads.
LEMMA ReleaseInv ==
  ASSUME IInv, Release
  PROVE  IInv'
<1> USE DEF Release, hostVars, opVars, history
<1>1. TypeOK'
  BY BoundsAssumption DEF IInv, TypeOK, Versions, Tags
<1> QED
  BY <1>1 DEF IInv, FixedTags, TagHasImages, KnownTags, StatusShownIsTrue, Alone,
              RestsOnWorkingVersion, Undisturbed, UndisturbedAt, AtRest, GoodTag, Live

LEMMA AskInv ==
  ASSUME IInv, NEW r \in Requests, Ask(r)
  PROVE  IInv'
<1> USE DEF Ask, hostVars, opVars, history, NoRequest, Requests
<1>1. TypeOK'
  BY DEF IInv, TypeOK, Places, Working
<1>2. FixedTags' /\ TagHasImages' /\ KnownTags'
  BY DEF IInv, TypeOK, FixedTags, TagHasImages, KnownTags
<1>3. StatusShownIsTrue' /\ Alone'
  BY DEF IInv, TypeOK, StatusShownIsTrue, Alone, Live, Working
<1>4. RestsOnWorkingVersion' /\ Undisturbed'
  BY DEF IInv, TypeOK, RestsOnWorkingVersion, Undisturbed, UndisturbedAt, AtRest,
         GoodTag, Live, Working
<1> QED BY <1>1, <1>2, <1>3, <1>4 DEF IInv

LEMMA CheckInv ==
  ASSUME IInv, NEW r \in Requests, Check(r)
  PROVE  IInv'
<1> USE DEF Check, hostVars, history, NoRequest, Requests
<1>1. TypeOK'
  BY DEF IInv, TypeOK, Places, Working
<1>2. FixedTags' /\ TagHasImages' /\ KnownTags'
  BY DEF IInv, TypeOK, FixedTags, TagHasImages, KnownTags
<1>3. StatusShownIsTrue' /\ Alone'
  BY DEF IInv, TypeOK, StatusShownIsTrue, Alone, Live, Working
<1>4. RestsOnWorkingVersion' /\ Undisturbed'
  BY DEF IInv, TypeOK, RestsOnWorkingVersion, Undisturbed, UndisturbedAt, AtRest,
         GoodTag, Live, Working
<1> QED BY <1>1, <1>2, <1>3, <1>4 DEF IInv

LEMMA CreateInv ==
  ASSUME IInv, NEW r \in Requests, Create(r)
  PROVE  IInv'
<1> USE DEF Create, hostVars, NoRequest, Requests
<1>1. TypeOK'
  <2>1. disturbed' \in BOOLEAN /\ shared' \subseteq Requests
    BY DEF IInv, TypeOK, Live
  <2> QED
    BY <2>1 DEF IInv, TypeOK, Places, Working
<1>2. FixedTags' /\ TagHasImages' /\ KnownTags'
  BY DEF IInv, TypeOK, FixedTags, TagHasImages, KnownTags
<1>3. StatusShownIsTrue' /\ Alone'
  BY DEF IInv, TypeOK, StatusShownIsTrue, Alone, Live, Working
<1>4. RestsOnWorkingVersion' /\ Undisturbed'
  BY DEF IInv, TypeOK, RestsOnWorkingVersion, Undisturbed, UndisturbedAt, AtRest,
         GoodTag, Live, Working
<1> QED BY <1>1, <1>2, <1>3, <1>4 DEF IInv

LEMMA StartInv ==
  ASSUME IInv, NEW r \in Requests, Start(r)
  PROVE  IInv'
<1> USE DEF Start, hostVars, NoRequest, Requests
<1>1. TypeOK'
  BY DEF IInv, TypeOK, Places, Working
<1>2. FixedTags' /\ TagHasImages' /\ KnownTags'
  BY <1>1 DEF IInv, TypeOK, FixedTags, TagHasImages, KnownTags
<1>3. r \in Live /\ \A q \in Live' : q \in Live
  BY DEF IInv, TypeOK, Live, Working
<1>4. disturbed => disturbed'
  BY DEF IInv, TypeOK
<1>5. ~disturbed => UndisturbedAt(r) /\ \A q \in Live : q = r
  BY <1>3 DEF IInv, Undisturbed
<1>6. StatusShownIsTrue' /\ Alone'
  <2> SUFFICES ASSUME lastOperation # NoRequest, lastOperation \notin shared
               PROVE  StatusShownIsTrue' /\ Alone'
    BY DEF StatusShownIsTrue, Alone
  <2>1. lastOperation = r /\ \A q \in Live' : q = r
    BY <1>3 DEF IInv, Alone
  <2>2. Alone'
    BY <2>1 DEF IInv, TypeOK, Alone
  <2>3. StatusShownIsTrue'
    BY <2>1 DEF IInv, TypeOK, StatusShownIsTrue, Alone
  <2> QED BY <2>2, <2>3
<1>7. RestsOnWorkingVersion' /\ Undisturbed'
  <2> SUFFICES ASSUME ~disturbed'
               PROVE  RestsOnWorkingVersion' /\ Undisturbed'
    BY DEF RestsOnWorkingVersion, Undisturbed
  <2>1. ~disturbed
    BY <1>4
  <2>2. UndisturbedAt(r) /\ \A q \in Live' : q = r
    BY <1>3, <1>5, <2>1
  <2>3. /\ pc'[r] \in Working => UndisturbedAt(r)'
        /\ pc'[r] \notin Working => AtRest'
    BY <2>2 DEF IInv, TypeOK, UndisturbedAt, AtRest, GoodTag, Working
  <2> QED
    BY <2>2, <2>3 DEF IInv, TypeOK, RestsOnWorkingVersion, Undisturbed, AtRest,
                      GoodTag, Live
<1> QED BY <1>1, <1>2, <1>6, <1>7 DEF IInv

LEMMA PreflightInv ==
  ASSUME IInv, NEW r \in Requests, Preflight(r)
  PROVE  IInv'
<1> USE DEF Preflight, Abandon, history, NoRequest, Requests
<1>0. /\ image' \in [Tags -> Versions \union {NoImage}]
      /\ \A t \in Tags : image[t] # NoImage => image'[t] = image[t]
      /\ FixedTags'
      /\ pc'[r] = "backup" => image'[asked[r]] # NoImage
  <2>1. asked[r] \in Versions /\ TypeOK /\ FixedTags
    BY DEF IInv, TypeOK
  <2>2. /\ image' \in {image, Pulled(asked[r])}
        /\ pc'[r] = "backup" => image' = Pulled(asked[r])
    BY DEF IInv, TypeOK
  <2> QED
    BY <2>1, <2>2, PulledKeeps DEF TypeOK, FixedTags
<1>1. TypeOK'
  BY <1>0 DEF IInv, TypeOK, Places, Working
<1>2. FixedTags' /\ TagHasImages' /\ KnownTags'
  BY <1>0, VersionsAreTags DEF IInv, TypeOK, TagHasImages, KnownTags
<1>3. r \in Live /\ \A q \in Live' : q \in Live
  BY DEF IInv, TypeOK, Live, Working
<1>4. disturbed => disturbed'
  BY DEF IInv, TypeOK
<1>5. ~disturbed => UndisturbedAt(r) /\ \A q \in Live : q = r
  BY <1>3 DEF IInv, Undisturbed
<1>6. StatusShownIsTrue' /\ Alone'
  <2> SUFFICES ASSUME lastOperation # NoRequest, lastOperation \notin shared
               PROVE  StatusShownIsTrue' /\ Alone'
    BY DEF StatusShownIsTrue, Alone
  <2>1. lastOperation = r /\ \A q \in Live' : q = r
    BY <1>3 DEF IInv, Alone
  <2>2. Alone'
    BY <2>1 DEF IInv, TypeOK, Alone
  <2>3. StatusShownIsTrue'
    BY <2>1 DEF IInv, TypeOK, StatusShownIsTrue, Alone
  <2> QED BY <2>2, <2>3
<1>7. RestsOnWorkingVersion' /\ Undisturbed'
  <2> SUFFICES ASSUME ~disturbed'
               PROVE  RestsOnWorkingVersion' /\ Undisturbed'
    BY DEF RestsOnWorkingVersion, Undisturbed
  <2>1. ~disturbed
    BY <1>4
  <2>2. UndisturbedAt(r) /\ \A q \in Live' : q = r
    BY <1>3, <1>5, <2>1
  <2>3. /\ pc'[r] \in Working => UndisturbedAt(r)'
        /\ pc'[r] \notin Working => AtRest'
    BY <1>0, <2>2 DEF IInv, TypeOK, TagHasImages, UndisturbedAt, AtRest, GoodTag, Working
  <2> QED
    BY <2>2, <2>3 DEF IInv, TypeOK, RestsOnWorkingVersion, Undisturbed, AtRest,
                      GoodTag, Live
<1> QED BY <1>1, <1>2, <1>6, <1>7 DEF IInv

LEMMA BackUpInv ==
  ASSUME IInv, NEW r \in Requests, BackUp(r)
  PROVE  IInv'
<1> USE DEF BackUp, Abandon, hostVars, history, NoRequest, Requests
<1>1. TypeOK'
  BY VersionsAreTags DEF IInv, TypeOK, Places, Working
<1>2. FixedTags' /\ TagHasImages' /\ KnownTags'
  BY <1>1 DEF IInv, TypeOK, FixedTags, TagHasImages, KnownTags
<1>3. r \in Live /\ \A q \in Live' : q \in Live
  BY DEF IInv, TypeOK, Live, Working
<1>4. disturbed => disturbed'
  BY DEF IInv, TypeOK
<1>5. ~disturbed => UndisturbedAt(r) /\ \A q \in Live : q = r
  BY <1>3 DEF IInv, Undisturbed
<1>6. StatusShownIsTrue' /\ Alone'
  <2> SUFFICES ASSUME lastOperation # NoRequest, lastOperation \notin shared
               PROVE  StatusShownIsTrue' /\ Alone'
    BY DEF StatusShownIsTrue, Alone
  <2>1. lastOperation = r /\ \A q \in Live' : q = r
    BY <1>3 DEF IInv, Alone
  <2>2. Alone'
    BY <2>1 DEF IInv, TypeOK, Alone
  <2>3. StatusShownIsTrue'
    BY <2>1 DEF IInv, TypeOK, StatusShownIsTrue, Alone
  <2> QED BY <2>2, <2>3
<1>7. RestsOnWorkingVersion' /\ Undisturbed'
  <2> SUFFICES ASSUME ~disturbed'
               PROVE  RestsOnWorkingVersion' /\ Undisturbed'
    BY DEF RestsOnWorkingVersion, Undisturbed
  <2>1. ~disturbed
    BY <1>4
  <2>2. UndisturbedAt(r) /\ \A q \in Live' : q = r
    BY <1>3, <1>5, <2>1
  <2>3. /\ pc'[r] \in Working => UndisturbedAt(r)'
        /\ pc'[r] \notin Working => AtRest'
    BY <2>2 DEF IInv, TypeOK, UndisturbedAt, AtRest, GoodTag, Working
  <2> QED
    BY <2>2, <2>3 DEF IInv, TypeOK, RestsOnWorkingVersion, Undisturbed, AtRest,
                      GoodTag, Live
<1> QED BY <1>1, <1>2, <1>6, <1>7 DEF IInv

LEMMA UpInv ==
  ASSUME IInv, NEW r \in Requests, Up(r)
  PROVE  IInv'
<1> USE DEF Up, Recreated, MaybeRecreated, RollBack, history, NoRequest, Requests
<1>0. running' \in Versions /\ runningTag' \in Tags /\ image[runningTag'] # NoImage
  BY VersionsAreTags DEF IInv, TypeOK, TagHasImages
<1>1. TypeOK'
  BY <1>0 DEF IInv, TypeOK, Places, Working
<1>2. FixedTags' /\ TagHasImages' /\ KnownTags'
  BY <1>0 DEF IInv, TypeOK, FixedTags, TagHasImages, KnownTags
<1>3. r \in Live /\ \A q \in Live' : q \in Live
  BY DEF IInv, TypeOK, Live, Working
<1>4. disturbed => disturbed'
  BY DEF IInv, TypeOK
<1>5. ~disturbed => UndisturbedAt(r) /\ \A q \in Live : q = r
  BY <1>3 DEF IInv, Undisturbed
<1>6. StatusShownIsTrue' /\ Alone'
  <2> SUFFICES ASSUME lastOperation # NoRequest, lastOperation \notin shared
               PROVE  StatusShownIsTrue' /\ Alone'
    BY DEF StatusShownIsTrue, Alone
  <2>1. lastOperation = r /\ \A q \in Live' : q = r
    BY <1>3 DEF IInv, Alone
  <2>2. Alone'
    BY <2>1, <1>0, VersionsAreTags DEF IInv, TypeOK, Alone, KnownTags, FixedTags
  <2>3. StatusShownIsTrue'
    BY <2>1 DEF IInv, TypeOK, StatusShownIsTrue, Alone
  <2> QED BY <2>2, <2>3
<1>7. RestsOnWorkingVersion' /\ Undisturbed'
  <2> SUFFICES ASSUME ~disturbed'
               PROVE  RestsOnWorkingVersion' /\ Undisturbed'
    BY DEF RestsOnWorkingVersion, Undisturbed
  <2>1. ~disturbed
    BY <1>4
  <2>2. UndisturbedAt(r) /\ \A q \in Live' : q = r
    BY <1>3, <1>5, <2>1
  <2>3. /\ pc'[r] \in Working => UndisturbedAt(r)'
        /\ pc'[r] \notin Working => AtRest'
    BY <2>2 DEF IInv, TypeOK, UndisturbedAt, AtRest, GoodTag, Working
  <2> QED
    BY <2>2, <2>3 DEF IInv, TypeOK, RestsOnWorkingVersion, Undisturbed, AtRest,
                      GoodTag, Live
<1> QED BY <1>1, <1>2, <1>6, <1>7 DEF IInv

LEMMA HealthInv ==
  ASSUME IInv, NEW r \in Requests, Health(r)
  PROVE  IInv'
<1> USE DEF Health, RollBack, hostVars, NoRequest, Requests
<1>1. TypeOK'
  BY DEF IInv, TypeOK, Places, Working
<1>2. FixedTags' /\ TagHasImages' /\ KnownTags'
  BY <1>1 DEF IInv, TypeOK, FixedTags, TagHasImages, KnownTags
<1>3. r \in Live /\ \A q \in Live' : q \in Live
  BY DEF IInv, TypeOK, Live, Working
<1>4. disturbed => disturbed'
  BY DEF IInv, TypeOK
<1>5. ~disturbed => UndisturbedAt(r) /\ \A q \in Live : q = r
  BY <1>3 DEF IInv, Undisturbed
<1>6. StatusShownIsTrue' /\ Alone'
  <2> SUFFICES ASSUME lastOperation # NoRequest, lastOperation \notin shared
               PROVE  StatusShownIsTrue' /\ Alone'
    BY DEF StatusShownIsTrue, Alone
  <2>1. lastOperation = r /\ \A q \in Live' : q = r
    BY <1>3 DEF IInv, Alone
  <2>2. Alone'
    BY <2>1 DEF IInv, TypeOK, Alone
  <2>3. StatusShownIsTrue'
    BY <2>1 DEF IInv, TypeOK, StatusShownIsTrue, Alone
  <2> QED BY <2>2, <2>3
<1>7. RestsOnWorkingVersion' /\ Undisturbed'
  <2> SUFFICES ASSUME ~disturbed'
               PROVE  RestsOnWorkingVersion' /\ Undisturbed'
    BY DEF RestsOnWorkingVersion, Undisturbed
  <2>1. ~disturbed
    BY <1>4
  <2>2. UndisturbedAt(r) /\ \A q \in Live' : q = r
    BY <1>3, <1>5, <2>1
  <2>3. /\ pc'[r] \in Working => UndisturbedAt(r)'
        /\ pc'[r] \notin Working => AtRest'
    BY <2>2 DEF IInv, TypeOK, UndisturbedAt, AtRest, GoodTag, Working
  <2> QED
    BY <2>2, <2>3 DEF IInv, TypeOK, RestsOnWorkingVersion, Undisturbed, AtRest,
                      GoodTag, Live
<1> QED BY <1>1, <1>2, <1>6, <1>7 DEF IInv

LEMMA RestorePullInv ==
  ASSUME IInv, NEW r \in Requests, RestorePull(r)
  PROVE  IInv'
<1> USE DEF RestorePull, Surrender, NoRequest, Requests
<1>0. /\ image' \in [Tags -> Versions \union {NoImage}]
      /\ \A t \in Tags : image[t] # NoImage => image'[t] # NoImage
      /\ \A t \in Tags : image[t] # NoImage /\ t # Moving => image'[t] = image[t]
      /\ \A t \in Tags : t # envTag => image'[t] = image[t]
      /\ FixedTags'
  BY PulledHas DEF IInv, TypeOK, FixedTags
<1>1. TypeOK'
  BY <1>0 DEF IInv, TypeOK, Places, Working
<1>2. FixedTags' /\ TagHasImages' /\ KnownTags'
  BY <1>0, VersionsAreTags DEF IInv, TypeOK, TagHasImages, KnownTags
<1>3. r \in Live /\ \A q \in Live' : q \in Live
  BY DEF IInv, TypeOK, Live, Working
<1>4. disturbed => disturbed'
  BY DEF IInv, TypeOK
<1>5. ~disturbed => UndisturbedAt(r) /\ \A q \in Live : q = r
  BY <1>3 DEF IInv, Undisturbed
<1>6. StatusShownIsTrue' /\ Alone'
  <2> SUFFICES ASSUME lastOperation # NoRequest, lastOperation \notin shared
               PROVE  StatusShownIsTrue' /\ Alone'
    BY DEF StatusShownIsTrue, Alone
  <2>1. lastOperation = r /\ \A q \in Live' : q = r
    BY <1>3 DEF IInv, Alone
  <2>2. Alone'
    BY <2>1 DEF IInv, TypeOK, Alone
  <2>3. StatusShownIsTrue'
    BY <2>1 DEF IInv, TypeOK, StatusShownIsTrue, Alone
  <2> QED BY <2>2, <2>3
<1>7. RestsOnWorkingVersion' /\ Undisturbed'
  <2> SUFFICES ASSUME ~disturbed'
               PROVE  RestsOnWorkingVersion' /\ Undisturbed'
    BY DEF RestsOnWorkingVersion, Undisturbed
  <2>1. ~disturbed
    BY <1>4
  <2>2. UndisturbedAt(r) /\ \A q \in Live' : q = r
    BY <1>3, <1>5, <2>1
  <2>3. /\ pc'[r] \in Working => UndisturbedAt(r)'
        /\ pc'[r] \notin Working => AtRest'
    BY <1>0, <2>2 DEF IInv, TypeOK, TagHasImages, UndisturbedAt, AtRest, GoodTag, Working
  <2> QED
    BY <2>2, <2>3 DEF IInv, TypeOK, RestsOnWorkingVersion, Undisturbed, AtRest,
                      GoodTag, Live
<1> QED BY <1>1, <1>2, <1>6, <1>7 DEF IInv

LEMMA RestoreInv ==
  ASSUME IInv, NEW r \in Requests, Restore(r)
  PROVE  IInv'
<1> USE DEF Restore, Recreated, MaybeRecreated, Surrender, NoRequest, Requests
<1>0. running' \in Versions /\ runningTag' \in Tags /\ image[runningTag'] # NoImage
  BY VersionsAreTags DEF IInv, TypeOK, TagHasImages
<1>1. TypeOK'
  BY <1>0 DEF IInv, TypeOK, Places, Working
<1>2. FixedTags' /\ TagHasImages' /\ KnownTags'
  BY <1>0 DEF IInv, TypeOK, FixedTags, TagHasImages, KnownTags
<1>3. r \in Live /\ \A q \in Live' : q \in Live
  BY DEF IInv, TypeOK, Live, Working
<1>4. disturbed => disturbed'
  BY DEF IInv, TypeOK
<1>5. ~disturbed => UndisturbedAt(r) /\ \A q \in Live : q = r
  BY <1>3 DEF IInv, Undisturbed
<1>6. StatusShownIsTrue' /\ Alone'
  <2> SUFFICES ASSUME lastOperation # NoRequest, lastOperation \notin shared
               PROVE  StatusShownIsTrue' /\ Alone'
    BY DEF StatusShownIsTrue, Alone
  <2>1. lastOperation = r /\ \A q \in Live' : q = r
    BY <1>3 DEF IInv, Alone
  <2>2. Alone'
    BY <2>1 DEF IInv, TypeOK, Alone
  <2>3. StatusShownIsTrue'
    <3>1. prev[r] # Moving => image[prev[r]] = prev[r]
      BY VersionsAreTags DEF IInv, TypeOK, FixedTags, KnownTags, Tags
    <3>2. ~disturbed /\ r \notin moved => image[prev[r]] = before[r]
      BY <1>5 DEF UndisturbedAt
    <3> QED
      BY <2>1, <3>1, <3>2, <1>4 DEF IInv, TypeOK, StatusShownIsTrue, Alone
  <2> QED BY <2>2, <2>3
<1>7. RestsOnWorkingVersion' /\ Undisturbed'
  <2> SUFFICES ASSUME ~disturbed'
               PROVE  RestsOnWorkingVersion' /\ Undisturbed'
    BY DEF RestsOnWorkingVersion, Undisturbed
  <2>1. ~disturbed
    BY <1>4
  <2>2. UndisturbedAt(r) /\ \A q \in Live' : q = r
    BY <1>3, <1>5, <2>1
  <2>3. /\ pc'[r] \in Working => UndisturbedAt(r)'
        /\ pc'[r] \notin Working => AtRest'
    BY <2>2 DEF IInv, TypeOK, UndisturbedAt, AtRest, GoodTag, Working
  <2> QED
    BY <2>2, <2>3 DEF IInv, TypeOK, RestsOnWorkingVersion, Undisturbed, AtRest,
                      GoodTag, Live
<1> QED BY <1>1, <1>2, <1>6, <1>7 DEF IInv

\* After a restart of the updater no operation is left.
LEMMA CrashInv ==
  ASSUME IInv, Crash
  PROVE  IInv'
<1> USE DEF Crash, NoRequest, Requests
<1>0. running' \in Versions /\ runningTag' \in Tags /\ image[runningTag'] # NoImage
  BY VersionsAreTags DEF IInv, TypeOK, TagHasImages, Recreated
<1>1. PICK T \in SUBSET ({asked[r] : r \in {q \in Requests : pc[q] = "preflight"}}
                  \union {envTag : r \in {q \in Requests : pc[q] = "restore"}}) :
        image' = [t \in Tags |-> IF t \in T THEN Names(t) ELSE image[t]]
  OBVIOUS
<1>2. T \subseteq Tags
  BY VersionsAreTags DEF IInv, TypeOK
<1>3. /\ image' \in [Tags -> Versions \union {NoImage}]
      /\ \A t \in Tags : image[t] # NoImage => image'[t] # NoImage
      /\ FixedTags'
  BY <1>1, VersionsAreTags DEF IInv, TypeOK, FixedTags, Names, Tags
<1>4. TypeOK'
  BY <1>0, <1>3 DEF IInv, TypeOK, Places, Working
<1>5. TagHasImages'
  BY <1>0, <1>3 DEF IInv, TypeOK, TagHasImages
<1>6. Live' = {}
  BY DEF IInv, TypeOK, Live, Working
<1>7. KnownTags'
  BY DEF IInv, TypeOK, KnownTags, Live, Working
<1>8. StatusShownIsTrue' /\ Alone' /\ Undisturbed'
  BY <1>6 DEF StatusShownIsTrue, Alone, Undisturbed
<1>9. RestsOnWorkingVersion'
  <2> SUFFICES ASSUME ~disturbed'
               PROVE  RestsOnWorkingVersion'
    BY DEF RestsOnWorkingVersion
  <2>1. /\ ~disturbed
        /\ \A r \in Requests : pc[r] \notin {"up", "health", "restore", "recreate"}
    BY DEF IInv, TypeOK
  <2>2. AtRest
    <3>1. CASE Live = {}
      BY <3>1, <2>1 DEF IInv, RestsOnWorkingVersion, AtRest, GoodTag
    <3>2. CASE Live # {}
      <4>1. PICK r \in Live : TRUE
        BY <3>2
      <4>2. UndisturbedAt(r) /\ pc[r] \in {"queued", "preflight", "backup"}
        BY <2>1, <4>1 DEF IInv, Undisturbed, Live, Working
      <4> QED BY <4>2 DEF UndisturbedAt
    <3> QED BY <3>1, <3>2
  <2>3. image'[envTag] = image[envTag]
    <3>1. T \subseteq Versions
      BY <2>1 DEF IInv, TypeOK
    <3> QED
      BY <1>1, <3>1, VersionsAreTags DEF IInv, TypeOK, FixedTags, TagHasImages, Names
  <2>4. running' = running
    BY <2>1
  <2> QED
    BY <2>2, <2>3, <2>4 DEF RestsOnWorkingVersion, AtRest, GoodTag
<1> QED BY <1>3, <1>4, <1>5, <1>7, <1>8, <1>9 DEF IInv

LEMMA StutterInv == IInv /\ UNCHANGED vars => IInv'
BY DEF vars, hostVars, opVars, history, IInv, TypeOK, FixedTags, TagHasImages,
       KnownTags, StatusShownIsTrue, Alone, RestsOnWorkingVersion, Undisturbed,
       UndisturbedAt, AtRest, GoodTag, Live

-------------------------------------------------------------------------------
\* The invariant holds in every reachable state, whatever overlaps or stops.
THEOREM Inductive == Spec => []IInv
<1>1. Init => IInv
  BY InitInv
<1>2. IInv /\ [Next]_vars => IInv'
  BY ReleaseInv, AskInv, CheckInv, CreateInv, StartInv, PreflightInv, BackUpInv,
     UpInv, HealthInv, RestorePullInv, RestoreInv, CrashInv, StutterInv DEF Next, Work
<1> QED BY <1>1, <1>2, PTL DEF Spec

\* Every variable keeps its type.
THEOREM TypeCorrect == Spec => []TypeOK
<1>1. IInv => TypeOK
  BY DEF IInv
<1> QED BY Inductive, <1>1, PTL

\* The tag of the env file and the tag that runs have their images on the host.
THEOREM TagHasImagesCorrect == Spec => []TagHasImages
<1>1. IInv => TagHasImages
  BY DEF IInv
<1> QED BY Inductive, <1>1, PTL

\* What GET /status shows of an operation that ran alone is true.
THEOREM StatusShownIsTrueCorrect == Spec => []StatusShownIsTrue
<1>1. IInv => StatusShownIsTrue
  BY DEF IInv
<1> QED BY Inductive, <1>1, PTL

\* An undisturbed installation at rest runs what the tag of its env file names, a
\* verified version unless that tag is `latest` and a rollback moved it.
THEOREM RestsOnWorkingVersionCorrect == Spec => []RestsOnWorkingVersion
<1>1. IInv => RestsOnWorkingVersion
  BY DEF IInv
<1> QED BY Inductive, <1>1, PTL
===============================================================================
