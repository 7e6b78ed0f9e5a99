----------------------- MODULE SafariProjectionProofs -----------------------
(***************************************************************************)
(* The safety properties of SafariProjection, for any pages, any records a *)
(* 2.x version may have left and any bounds: the variables stay well typed,*)
(* and a choice the copy kept through a reinstall is not overwritten while *)
(* the reinstalled app holds an untouched first record, in an install whose*)
(* pages saved nothing before the app had a committed record.              *)
(*                                                                         *)
(* A reconcile and a page both read, wait and then write, so the choice is *)
(* safe only because of what each of them may hold meanwhile.  Guarded says*)
(* what that is, in three parts: AppLeads (an offer follows a record the   *)
(* app has saved), OnlyFirst (while the app's record is untouched, nobody  *)
(* holds another committed record of it) and ChoiceWaits (while a choice   *)
(* waits in the copy, nobody is on the way to write the copy).  A choice   *)
(* saved before the app's first committed record breaks all of it; IInv is *)
(* Guarded for the installs without one, and a reinstall starts it anew.   *)
(***************************************************************************)
EXTENDS SafariProjection, TLAPS

\* The steps of a reconcile and of a page, and the records that hold them
ReconSteps ==
    {"idle", "seed", "app", "local", "recorded", "ask", "adopt", "reread",
     "replace", "settle", "pull", "compare", "mirror", "write", "push"}

ReconRecord ==
    [at : ReconSteps, app : Maybe, local : Maybe, recorded : Id, id : Id, target : Maybe,
     follow : BOOLEAN]

PageSteps == {"closed", "open", "mirror", "write"}

PageRecord == [at : PageSteps, shown : Maybe, v3 : BOOLEAN, held : BOOLEAN, record : Maybe]

SeedRecord == [at : {"idle", "read", "check", "write"}, id : Id]

PullAttempt == [at : {"idle", "seed", "record"}, id : Id]

\* TypeOK with names for its records
Types ==
    /\ install \in 1..MaxInstalls /\ published \in BOOLEAN /\ early \in BOOLEAN
    /\ app \in Maybe /\ copy \in Maybe
    /\ copyId \in Id /\ pullId \in Id /\ confirmed \in Id
    /\ recon \in ReconRecord
    /\ pull \in PullAttempt
    /\ seed \in SeedRecord
    /\ page \in [Pages -> PageRecord]
    /\ faults \in 0..MaxFaults

\* What is offered to the app is a record.
OffersRecord == recon.at = "adopt" => recon.local # None

Typed == Types /\ OffersRecord

-----------------------------------------------------------------------------
\* What is assumed of the constants says of the first records and the bounds
LEMMA Constants ==
    /\ First \in Record /\ Absent \in Record
    /\ None \notin Record /\ None \in Maybe
    /\ 0 \in Id
    /\ MaxOrder \in Nat \ {0} /\ MaxInstalls \in Nat \ {0}
    /\ MaxGeneration \in Nat /\ MaxFaults \in Nat
<1>1. /\ MaxOrder \in Nat \ {0} /\ MaxInstalls \in Nat \ {0}
      /\ MaxGeneration \in Nat /\ MaxFaults \in Nat
  BY BoundsAssumption
<1>2. 0 \in 0..MaxGeneration /\ 0 \in 0..MaxOrder /\ 0 \in 0..MaxInstalls
  BY <1>1
<1>3. First \in Record
  BY <1>2 DEF First, Record
<1>4. Absent \in Record
  BY <1>3 DEF Absent, Record
<1> QED
  BY <1>1, <1>2, <1>3, <1>4, RecordsAssumption DEF Maybe, Id

\* The idle contexts are well typed.
LEMMA Idles ==
    /\ ReconIdle \in ReconRecord /\ ReconIdle.at = "idle"
    /\ PageClosed \in PageRecord
    /\ SeedIdle \in SeedRecord /\ PullIdle \in PullAttempt
<1>1. None \in Maybe /\ 0 \in Id
  BY Constants
<1>2. ReconIdle \in ReconRecord /\ ReconIdle.at = "idle"
  BY <1>1 DEF ReconIdle, ReconRecord, ReconSteps
<1>3. PageClosed \in PageRecord
  BY <1>1 DEF PageClosed, PageRecord, PageSteps
<1>4. SeedIdle \in SeedRecord /\ PullIdle \in PullAttempt
  BY <1>1 DEF SeedIdle, SeedRecord, PullIdle, PullAttempt
<1> QED
  BY <1>2, <1>3, <1>4

\* A record's fields, and the changes of them that stay records
LEMMA RecordFields ==
    ASSUME NEW r \in Record
    PROVE  /\ r.atomic \in BOOLEAN /\ r.on \in BOOLEAN
           /\ r.gen \in 0..MaxGeneration /\ r.order \in 0..MaxOrder
           /\ \A n \in 0..MaxOrder : [r EXCEPT !.order = n] \in Record
           /\ \A n \in 0..MaxOrder, b \in BOOLEAN :
                [r EXCEPT !.order = n, !.on = b] \in Record
           /\ \A n \in 0..MaxOrder, g \in 0..MaxGeneration :
                [r EXCEPT !.order = n, !.gen = g] \in Record
           /\ r # None
           /\ Converted(r) \in Record
<1>1. /\ r.atomic \in BOOLEAN /\ r.on \in BOOLEAN
      /\ r.gen \in 0..MaxGeneration /\ r.order \in 0..MaxOrder
      /\ \A n \in 0..MaxOrder : [r EXCEPT !.order = n] \in Record
      /\ \A n \in 0..MaxOrder, b \in BOOLEAN : [r EXCEPT !.order = n, !.on = b] \in Record
      /\ \A n \in 0..MaxOrder, g \in 0..MaxGeneration :
            [r EXCEPT !.order = n, !.gen = g] \in Record
  BY DEF Record
<1>2. Converted(r) \in Record
  BY <1>1, Constants DEF Converted, Record
<1> QED
  BY <1>1, <1>2, Constants

\* The app's answer to an offer
LEMMA AdoptionType ==
    ASSUME NEW r \in Maybe, NEW offered \in Record
    PROVE  /\ Adoption(r, offered).record \in Maybe
           /\ Adoption(r, offered).status \in {"kept", "refused", "adopted"}
<1> DEFINE whole == IF offered.atomic THEN offered ELSE Converted(offered)
<1>1. whole \in Record
  BY RecordFields
<1>2. whole.order \in 0..MaxOrder
  BY <1>1, RecordFields
<1>3. Adoptable(whole) => whole.order + 1 \in 0..MaxOrder
  BY <1>2, Constants DEF Adoptable
<1>4. Adoptable(whole) => [whole EXCEPT !.order = @ + 1] \in Record
  BY <1>1, <1>3, RecordFields
<1> HIDE DEF whole
<1>5. CASE r # First \/ offered = First
  BY <1>5 DEF Adoption
<1>6. CASE r = First /\ offered # First /\ ~Adoptable(whole)
  BY <1>6 DEF Adoption, whole
<1>7. CASE r = First /\ offered # First /\ Adoptable(whole)
  <2>1. Adoption(r, offered) = [status |-> "adopted", record |-> [whole EXCEPT !.order = @ + 1]]
    BY <1>7 DEF Adoption, whole
  <2> QED
    BY <1>4, <1>7, <2>1 DEF Maybe
<1> QED
  BY <1>5, <1>6, <1>7

\* What a page's choice makes of the record it is saved to
LEMMA SavedType ==
    ASSUME NEW r \in Maybe, NEW on \in BOOLEAN, NEW s \in Saved(r, on)
    PROVE  s \in Maybe
<1>1. CASE s = r
  BY <1>1
<1>2. ASSUME NEW n \in 1..MaxOrder, r = None, s = [Absent EXCEPT !.order = n, !.on = on]
      PROVE  s \in Maybe
  <2>1. n \in 0..MaxOrder
    BY Constants
  <2> QED
    BY <1>2, <2>1, Constants, RecordFields DEF Maybe
<1>3. ASSUME NEW n \in 1..MaxOrder, r # None, s = [r EXCEPT !.order = n, !.on = on]
      PROVE  s \in Maybe
  <2>1. n \in 0..MaxOrder /\ r \in Record
    BY <1>3, Constants DEF Maybe
  <2> QED
    BY <1>3, <2>1, RecordFields DEF Maybe
<1> QED
  BY <1>1, <1>2, <1>3 DEF Saved, IsCommitted

\* The moves of a reconcile keep its record well typed.
LEMMA ReconMoves ==
    ASSUME NEW r \in ReconRecord
    PROVE  /\ \A f \in BOOLEAN : Settling(r, f) \in ReconRecord /\ Settling(r, f).at = "settle"
           /\ \A a \in Maybe : Replacing(r, a) \in ReconRecord /\ Replacing(r, a).at = "reread"
           /\ Following \in ReconRecord /\ Following.at = "pull"
<1>1. r.id \in Id /\ r.local \in Maybe
  BY DEF ReconRecord
<1> QED
  BY <1>1, Idles DEF Settling, Replacing, Following, ReconIdle, ReconRecord, ReconSteps

\* The decision keeps it well typed, and offers a record only.
LEMMA DecisionType ==
    ASSUME NEW r \in ReconRecord
    PROVE  /\ Decision(r) \in ReconRecord
           /\ Decision(r).at = "adopt" => Decision(r).local # None
<1> DEFINE d == [r EXCEPT !.at = "adopt", !.app = None]
<1>1. d \in ReconRecord /\ d.local = r.local
  BY Constants DEF ReconRecord, ReconSteps
<1>2. r.app \in Maybe
  BY DEF ReconRecord
<1>3. \/ Decision(r) = Following \/ Decision(r) = Settling(r, TRUE)
      \/ Decision(r) = Replacing(r, r.app)
      \/ Decision(r) = d /\ r.local # None
  BY DEF Decision
<1> HIDE DEF d
<1> QED
  BY <1>1, <1>2, <1>3, ReconMoves


-----------------------------------------------------------------------------
\* The first state is well typed.
LEMMA InitTypes == Init => Typed
<1> SUFFICES ASSUME Init PROVE Typed
  OBVIOUS
<1>1. app \in Maybe
  BY RecordsAssumption DEF Init, Maybe
<1>2. 1 \in 1..MaxInstalls /\ 0 \in 0..MaxFaults
  BY Constants
<1> QED
  BY <1>1, <1>2, Idles, Constants DEF Init, Typed, Types, OffersRecord

\* A commit of the app keeps a record.
LEMMA CommitRecord == ASSUME Typed, AppCommit \/ EnterScope PROVE app' \in Record
<1>1. app \in Record
  BY DEF AppCommit, EnterScope, IsCommitted, Typed, Types, Maybe
<1>2. /\ app.order \in 0..MaxOrder /\ app.order < MaxOrder
      /\ app.gen \in 0..MaxGeneration
  BY <1>1, RecordFields DEF AppCommit, EnterScope
<1>3. app.order + 1 \in 0..MaxOrder
  BY <1>2, Constants
<1>4. CASE AppCommit
  <2>1. app' = [app EXCEPT !.order = app.order + 1, !.on = ~app.on]
    BY <1>4 DEF AppCommit
  <2>2. (~app.on) \in BOOLEAN
    OBVIOUS
  <2> QED
    BY <1>1, <1>3, <2>1, <2>2, RecordFields
<1>5. CASE EnterScope
  <2>1. /\ app' = [app EXCEPT !.order = app.order + 1, !.gen = app.gen + 1]
        /\ app.gen < MaxGeneration
    BY <1>5 DEF EnterScope
  <2>2. app.gen + 1 \in 0..MaxGeneration
    BY <1>2, <2>1, Constants
  <2> QED
    BY <1>1, <1>3, <2>1, <2>2, RecordFields
<1> QED
  BY <1>4, <1>5

\* The app's commits and the publication of its install id
LEMMA AppTypes ==
    ASSUME Typed, Initialize \/ Publish \/ AppCommit \/ EnterScope
    PROVE  Typed'
<1>1. app' \in Maybe
  <2>1. CASE Initialize
    <3>1. app = None \/ app \in Record
      BY DEF Typed, Types, Maybe
    <3> QED
      BY <2>1, <3>1, Constants, RecordFields DEF Initialize, Maybe
  <2>2. CASE Publish
    BY <2>2 DEF Publish, Typed, Types
  <2>3. CASE AppCommit \/ EnterScope
    BY <2>3, CommitRecord DEF Maybe
  <2> QED
    BY <2>1, <2>2, <2>3
<1>2. published' \in BOOLEAN
  BY DEF Initialize, Publish, AppCommit, EnterScope, Typed, Types
<1>3. UNCHANGED <<install, early, storage, background, page, faults>>
  BY DEF Initialize, Publish, AppCommit, EnterScope
<1> QED
  BY <1>1, <1>2, <1>3 DEF Typed, Types, OffersRecord, storage, background

\* Reinstalling the app
LEMMA ReinstallTypes == ASSUME Typed, Reinstall PROVE Typed'
<1>1. install' \in 1..MaxInstalls
  BY Constants DEF Reinstall, Typed, Types
<1>2. UNCHANGED <<copy, copyId, pullId, faults>>
  BY DEF Reinstall, storage
<1>3. /\ app' = None /\ published' = FALSE /\ early' = FALSE /\ confirmed' = 0
      /\ recon' = ReconIdle /\ pull' = PullIdle /\ seed' = SeedIdle
      /\ page' = [s \in Pages |-> PageClosed]
  BY DEF Reinstall
<1> QED
  BY <1>1, <1>2, <1>3, Idles, Constants DEF Typed, Types, OffersRecord

\* Counting the messages lost
LEMMA FaultType ==
    ASSUME Typed, NEW lost \in BOOLEAN, Fault(lost)
    PROVE  faults' \in 0..MaxFaults
  BY Constants DEF Fault, Typed, Types

\* The install id the app has published
LEMMA InstallIdType == ASSUME Typed PROVE InstallId \in Id
  BY Constants DEF InstallId, Id, Typed, Types

\* Starting and stopping the background
LEMMA NudgeTypes == ASSUME Typed, Nudge \/ Stop PROVE Typed'
<1>1. recon' \in ReconRecord /\ recon'.at \in {"seed", "idle"}
  BY Idles DEF Nudge, Stop, ReconRecord, ReconSteps
<1>2. faults' \in 0..MaxFaults
  BY FaultType DEF Nudge, Stop, Typed, Types
<1>3. /\ confirmed' \in Id /\ pull' \in PullAttempt /\ seed' \in SeedRecord
      /\ UNCHANGED <<app_vars, storage, page>>
  BY Idles, Constants DEF Nudge, Stop, Typed, Types
<1> QED
  BY <1>1, <1>2, <1>3 DEF Typed, Types, OffersRecord, app_vars, storage

\* Seeding the install id of the copy
LEMMA SeedingTypes == ASSUME Typed, Seeding PROVE Typed'
<1>1. /\ recon \in ReconRecord /\ pull \in PullAttempt /\ seed \in SeedRecord
      /\ copyId \in Id /\ pullId \in Id
  BY DEF Typed, Types
<1>2. ASSUME Seeded
      PROVE  /\ seed' \in SeedRecord /\ pull' \in PullAttempt /\ recon' \in ReconRecord
             /\ recon' = recon \/ recon'.at = "app"
  BY <1>1, <1>2, Idles DEF Seeded, PullAttempt, ReconRecord, ReconSteps
<1>3. /\ seed' \in SeedRecord /\ pull' \in PullAttempt /\ recon' \in ReconRecord
      /\ recon' = recon \/ recon'.at = "app"
      /\ copyId' \in Id
      /\ UNCHANGED <<app_vars, copy, pullId, confirmed, page, faults>>
  <2>1. CASE SeedRead
    BY <1>1, <1>2, <2>1, Idles DEF SeedRead, SeedRecord, storage
  <2>2. CASE SeedReadPull
    BY <1>1, <1>2, <2>2, Idles DEF SeedReadPull, SeedRecord, storage
  <2>3. CASE SeedCheck
    BY <1>1, <1>2, <2>3, Idles DEF SeedCheck, SeedRecord, storage
  <2>4. CASE SeedWrite
    BY <1>1, <1>2, <2>4, Idles DEF SeedWrite, SeedRecord, storage
  <2> QED
    BY <2>1, <2>2, <2>3, <2>4 DEF Seeding
<1> QED
  BY <1>3 DEF Typed, Types, OffersRecord, app_vars

\* The entitlement pull
LEMMA PullingTypes == ASSUME Typed, Pulling PROVE Typed'
<1>1. ASSUME NEW lost \in BOOLEAN, PullAsk(lost) PROVE Typed'
  <2>1. pull' \in PullAttempt
    BY <1>1, InstallIdType, Idles DEF PullAsk, Asked, PullAttempt
  <2>2. faults' \in 0..MaxFaults
    BY <1>1, FaultType DEF PullAsk
  <2>3. UNCHANGED <<app_vars, storage, recon, confirmed, seed, page>>
    BY <1>1 DEF PullAsk
  <2> QED
    BY <2>1, <2>2, <2>3 DEF Typed, Types, OffersRecord, app_vars, storage
<1>2. CASE PullRecord
  <2>1. pullId' \in Id /\ pull' \in PullAttempt
    BY <1>2, Idles DEF PullRecord, Typed, Types, PullAttempt
  <2>2. UNCHANGED <<app_vars, copy, copyId, recon, confirmed, seed, page, faults>>
    BY <1>2 DEF PullRecord
  <2> QED
    BY <2>1, <2>2 DEF Typed, Types, OffersRecord, app_vars
<1> QED
  BY <1>1, <1>2 DEF Pulling

\* A reconcile that only reads and decides writes nothing but its own record.
LEMMA ReconTypes ==
    ASSUME Typed, recon' \in ReconRecord,
           recon'.at = "adopt" => recon'.local # None,
           app' \in Maybe, copy' \in Maybe, copyId' \in Id, confirmed' \in Id,
           faults' \in 0..MaxFaults,
           UNCHANGED <<install, published, early, pullId, pull, seed, page>>
    PROVE  Typed'
  BY DEF Typed, Types, OffersRecord

\* Reading the app's record, the copy, the recorded id and the app's id
LEMMA ReadingTypes ==
    ASSUME Typed, NEW lost \in BOOLEAN,
           PullFromApp(lost) \/ ReadLocal \/ ReadRecorded \/ AskInstallId(lost)
    PROVE  Typed'
<1>1. /\ recon \in ReconRecord /\ app \in Maybe /\ copy \in Maybe
      /\ copyId \in Id /\ InstallId \in Id /\ 0 \in Id /\ None \in Maybe
  BY InstallIdType, Constants DEF Typed, Types
<1>2. recon' \in ReconRecord /\ (recon'.at = "adopt" => recon'.local # None)
  <2>1. CASE PullFromApp(lost)
    BY <1>1, <2>1 DEF PullFromApp, ReconRecord, ReconSteps
  <2>2. CASE ReadLocal
    BY <1>1, <2>2 DEF ReadLocal, ReconRecord, ReconSteps
  <2>3. CASE ReadRecorded
    <3> DEFINE read == [recon EXCEPT !.recorded = copyId, !.id = copyId]
               ask == [read EXCEPT !.at = "ask", !.id = 0]
    <3>1. read \in ReconRecord /\ ask \in ReconRecord /\ ask.at = "ask"
      BY <1>1 DEF ReconRecord, ReconSteps
    <3>2. recon' = Decision(read) \/ recon' = ask
      BY <2>3 DEF ReadRecorded
    <3> HIDE DEF read, ask
    <3> QED
      BY <3>1, <3>2, DecisionType
  <2>4. CASE AskInstallId(lost)
    <3> DEFINE r == [recon EXCEPT !.id = IF lost THEN 0 ELSE InstallId]
    <3>1. r \in ReconRecord
      BY <1>1 DEF ReconRecord
    <3>2. recon' = Decision(r)
      BY <2>4 DEF AskInstallId
    <3> HIDE DEF r
    <3> QED
      BY <3>1, <3>2, DecisionType
  <2> QED
    BY <2>1, <2>2, <2>3, <2>4
<1>3. faults' \in 0..MaxFaults
  BY FaultType DEF PullFromApp, ReadLocal, ReadRecorded, AskInstallId, Typed, Types
<1>4. UNCHANGED <<app_vars, storage, confirmed, pull, seed, page>>
  BY DEF PullFromApp, ReadLocal, ReadRecorded, AskInstallId
<1> QED
  BY <1>1, <1>2, <1>3, <1>4, ReconTypes DEF app_vars, storage, Typed, Types

\* The offer: the app's answer is a record when the offer is one.
LEMMA AdoptTypes ==
    ASSUME Typed, NEW lost \in BOOLEAN, Adopt(lost)
    PROVE  Typed'
<1> DEFINE adoption == Adoption(app, recon.local)
<1>1. recon \in ReconRecord /\ app \in Maybe /\ recon.local \in Record
  BY DEF Adopt, Typed, Types, OffersRecord, ReconRecord, Maybe
<1>2. adoption.record \in Maybe
  BY <1>1, AdoptionType
<1>3. app' \in {adoption.record, app}
  BY DEF Adopt
<1>4. recon' \in {ReconIdle, Replacing(recon, adoption.record), Settling(recon, TRUE)}
  BY DEF Adopt
<1>5. faults' \in 0..MaxFaults /\ UNCHANGED <<install, published, early, storage, confirmed, pull, seed, page>>
  BY FaultType DEF Adopt
<1> HIDE DEF adoption
<1>6. recon' \in ReconRecord /\ recon'.at # "adopt"
  BY <1>1, <1>2, <1>4, ReconMoves, Idles
<1> QED
  BY <1>1, <1>2, <1>3, <1>5, <1>6, ReconTypes DEF storage, Typed, Types

\* The copy's replacement, and what follows the decision
LEMMA FollowingTypes ==
    ASSUME Typed, NEW lost \in BOOLEAN,
           \/ Reread \/ Replace \/ Settle \/ Compare \/ MirrorApp \/ WriteCopy \/ Push(lost)
    PROVE  Typed'
<1>1. /\ recon \in ReconRecord /\ recon.target \in Maybe /\ recon.app \in Maybe
      /\ recon.local \in Maybe /\ recon.id \in Id /\ app \in Maybe /\ copy \in Maybe
  BY DEF Typed, Types, ReconRecord
<1>2. recon' \in ReconRecord /\ recon'.at # "adopt"
  <2>1. \A p \in ReconSteps : [recon EXCEPT !.at = p] \in ReconRecord
                              /\ [recon EXCEPT !.at = p].at = p
    BY <1>1 DEF ReconRecord
  <2>2. {"replace", "mirror", "write", "push"} \subseteq ReconSteps
    BY DEF ReconSteps
  <2>3. /\ [ReconIdle EXCEPT !.at = "push", !.local = copy] \in ReconRecord
        /\ [ReconIdle EXCEPT !.at = "push", !.local = copy].at = "push"
    BY <1>1, Idles DEF ReconRecord, ReconSteps
  <2>4. \/ recon' \in {ReconIdle, Settling(recon, FALSE), Following}
        \/ recon' = [ReconIdle EXCEPT !.at = "push", !.local = copy]
        \/ \E p \in {"replace", "mirror", "write"} : recon' = [recon EXCEPT !.at = p]
    BY DEF Reread, Replace, Settle, Compare, MirrorApp, WriteCopy, Push
  <2>5. CASE recon' \in {ReconIdle, Settling(recon, FALSE), Following}
    BY <1>1, <2>5, ReconMoves, Idles
  <2>6. CASE recon' = [ReconIdle EXCEPT !.at = "push", !.local = copy]
    BY <2>3, <2>6
  <2>7. ASSUME NEW p \in {"replace", "mirror", "write"}, recon' = [recon EXCEPT !.at = p]
        PROVE  recon' \in ReconRecord /\ recon'.at # "adopt"
    BY <2>1, <2>2, <2>7
  <2> QED
    BY <2>4, <2>5, <2>6, <2>7
<1>3. copy' \in Maybe /\ copyId' \in Id /\ confirmed' \in Id
  BY <1>1 DEF Reread, Replace, Settle, Compare, MirrorApp, WriteCopy, Push, storage, Typed, Types
<1>4. app' \in Maybe
  BY <1>1 DEF Reread, Replace, Settle, Compare, MirrorApp, WriteCopy, Push, Pushed, app_vars
<1>5. faults' \in 0..MaxFaults
  BY FaultType DEF Reread, Replace, Settle, Compare, MirrorApp, WriteCopy, Push, Typed, Types
<1>6. UNCHANGED <<install, published, early, pullId, pull, seed, page>>
  BY DEF Reread, Replace, Settle, Compare, MirrorApp, WriteCopy, Push, app_vars, storage
<1> QED
  BY <1>2, <1>3, <1>4, <1>5, <1>6, ReconTypes

\* Every step of a page
LEMMA PageTypes ==
    ASSUME Typed, NEW s \in Pages, PageStep(s)
    PROVE  Typed'
<1>1. /\ page \in [Pages -> PageRecord] /\ page[s] \in PageRecord
      /\ app \in Maybe /\ copy \in Maybe /\ None \in Maybe /\ Absent \in Maybe
  BY Constants DEF Typed, Types, Maybe
<1>2. ASSUME NEW p \in PageRecord, page' = [page EXCEPT ![s] = p],
             app' \in Maybe, copy' \in Maybe, faults' \in 0..MaxFaults, early' \in BOOLEAN,
             UNCHANGED <<install, published, copyId, pullId, background>>
      PROVE  Typed'
  <2>1. page' \in [Pages -> PageRecord]
    BY <1>1, <1>2
  <2> QED
    BY <1>2, <2>1 DEF Typed, Types, OffersRecord, background
<1>3. Answered(page[s]) \in PageRecord
  BY <1>1 DEF Answered, PageRecord, PageSteps
<1>4. faults \in 0..MaxFaults /\ early \in BOOLEAN
  BY DEF Typed, Types
<1>5. CASE Close(s)
  BY <1>1, <1>2, <1>4, <1>5, Idles DEF Close, app_vars, storage
<1>6. CASE Refresh(s)
  <2>1. [page[s] EXCEPT !.shown = app, !.held = FALSE] \in PageRecord
    BY <1>1 DEF PageRecord
  <2>2. page' = [page EXCEPT ![s] = [page[s] EXCEPT !.shown = app, !.held = FALSE]]
    BY <1>6 DEF Refresh
  <2> QED
    BY <1>1, <1>2, <1>4, <1>6, <2>1, <2>2 DEF Refresh, app_vars, storage
<1>7. CASE Mirror(s)
  <2>1. [page[s] EXCEPT !.at = "write"] \in PageRecord
    BY <1>1 DEF PageRecord, PageSteps
  <2>2. \/ page' = [page EXCEPT ![s] = [page[s] EXCEPT !.at = "write"]]
        \/ page' = [page EXCEPT ![s] = Answered(page[s])]
    BY <1>7 DEF Mirror
  <2>3. UNCHANGED <<app_vars, storage, background, faults>>
    BY <1>7 DEF Mirror
  <2> QED
    BY <1>1, <1>2, <1>3, <1>4, <2>1, <2>2, <2>3 DEF app_vars, storage
<1>8. CASE Write(s)
  <2>1. page[s].record \in Maybe
    BY <1>1 DEF PageRecord
  <2> QED
    BY <1>1, <1>2, <1>3, <1>4, <1>8, <2>1 DEF Write, app_vars
<1>9. ASSUME NEW lost \in BOOLEAN, Open(s, lost) PROVE Typed'
  <2> DEFINE read == IF lost THEN copy ELSE app
             p == [at |-> "open", shown |-> read, v3 |-> IsCommitted(read),
                   held |-> lost /\ IsCommitted(read), record |-> None]
  <2>1. page' = [page EXCEPT ![s] = p] /\ UNCHANGED <<app_vars, storage, background>>
    BY <1>9 DEF Open
  <2>2. read \in Maybe /\ IsCommitted(read) \in BOOLEAN
    <3>1. ASSUME NEW r \in Maybe PROVE IsCommitted(r) \in BOOLEAN
      BY <3>1, RecordFields DEF IsCommitted, Maybe
    <3> QED
      BY <1>1, <3>1
  <2> HIDE DEF read
  <2>3. p \in PageRecord
    BY <1>1, <2>2 DEF PageRecord, PageSteps
  <2>4. faults' \in 0..MaxFaults
    BY <1>9, FaultType DEF Open
  <2> HIDE DEF p
  <2> QED
    BY <1>1, <1>2, <1>4, <2>1, <2>3, <2>4 DEF app_vars, storage
<1>10. ASSUME NEW lost \in BOOLEAN, Commit(s, lost) PROVE Typed'
  <2> DEFINE on == ~On(page[s].shown)
  <2>1. PICK r \in Saved(app, on) :
           /\ app' = r
           /\ page' = [page EXCEPT ![s] =
                IF lost THEN [page[s] EXCEPT !.held = page[s].held \/ page[s].v3]
                ELSE [page[s] EXCEPT !.at = "mirror",
                                     !.record = IF r = None THEN Absent ELSE r]]
    BY <1>10 DEF Commit
  <2>2. on \in BOOLEAN
    OBVIOUS
  <2> HIDE DEF on
  <2>3. r \in Maybe
    BY <1>1, <2>2, SavedType
  <2> DEFINE given == IF r = None THEN Absent ELSE r
             held == page[s].held \/ page[s].v3
  <2>4. given \in Maybe /\ held \in BOOLEAN
    BY <1>1, <2>3
  <2> HIDE DEF given, held
  <2>5. /\ [page[s] EXCEPT !.held = held] \in PageRecord
        /\ [page[s] EXCEPT !.at = "mirror", !.record = given] \in PageRecord
    BY <1>1, <2>4 DEF PageRecord, PageSteps
  <2>6. \/ page' = [page EXCEPT ![s] = [page[s] EXCEPT !.held = held]]
        \/ page' = [page EXCEPT ![s] = [page[s] EXCEPT !.at = "mirror", !.record = given]]
    <3>1. CASE lost
      BY <2>1, <3>1 DEF held
    <3>2. CASE ~lost
      BY <1>1, <2>1, <3>2 DEF given
    <3> QED
      BY <3>1, <3>2
  <2>7. UNCHANGED <<install, published, storage, background>> /\ faults' \in 0..MaxFaults
    BY <1>10, FaultType DEF Commit
  <2>8. early' \in BOOLEAN
    BY <1>10 DEF Commit
  <2> QED
    BY <1>1, <1>2, <2>1, <2>3, <2>5, <2>6, <2>7, <2>8 DEF storage
<1> QED
  BY <1>5, <1>6, <1>7, <1>8, <1>9, <1>10 DEF PageStep

(***************************************************************************)
(* Every step keeps the types.                                             *)
(***************************************************************************)
LEMMA StepTypes == ASSUME Typed, [Next]_vars PROVE Typed'
<1>1. CASE AppStep
  BY <1>1, AppTypes, ReinstallTypes DEF AppStep
<1>2. CASE Nudge \/ Stop \/ Seeding \/ Pulling
  BY <1>2, NudgeTypes, SeedingTypes, PullingTypes
<1>3. CASE Reconciling
  BY <1>3, ReadingTypes, AdoptTypes, FollowingTypes DEF Reconciling
<1>4. CASE \E s \in Pages : PageStep(s)
  BY <1>4, PageTypes
<1>5. CASE UNCHANGED vars
  BY <1>5 DEF vars, app_vars, storage, background, Typed, Types, OffersRecord
<1> QED
  BY <1>1, <1>2, <1>3, <1>4, <1>5 DEF Next

\* The variables of the projection stay well typed (TypeOK), whatever is lost,
\* stopped or reinstalled, and in whatever order the contexts run.
THEOREM TypeCorrect == Spec => []TypeOK
<1>1. Typed /\ [Next]_vars => Typed'
  BY StepTypes
<1>2. Typed => TypeOK
  BY DEF Typed, Types, TypeOK, ReconRecord, ReconSteps, PageRecord, PageSteps, SeedRecord, PullAttempt
<1> QED
  BY InitTypes, <1>1, <1>2, PTL DEF Spec

-----------------------------------------------------------------------------
(* What guards a choice that waits in the copy for the reinstalled app.      *)

\* The app's record before anything was chosen in this install
Untouched(r) == ~IsCommitted(r) \/ r = First

\* A choice the app can still adopt
OffChoice(c) == c # None /\ c.atomic /\ ~c.on /\ Adoptable(c)

\* The reconcile offers a copy, or has read a committed record, only after the app
\* saved one; it pushes legacy records alone.
AppLeads ==
    /\ IsCommitted(recon.app) \/ recon.at = "adopt" => IsCommitted(app)
    /\ recon.at = "push" => recon.local # None /\ ~IsCommitted(recon.local)

\* While the app's record is untouched, nobody holds another committed record of it.
OnlyFirst ==
    Untouched(app) =>
        /\ Untouched(recon.app)
        /\ recon.at \in {"reread", "replace"} => recon.target = First
        /\ \A s \in Pages : page[s].at \in {"mirror", "write"} => page[s].record = First

\* While a choice waits in the copy, nobody is about to write the copy: the reconcile
\* holds it as it is, and no page shows anything it could save as On.
ChoiceWaits ==
    Untouched(app) /\ OffChoice(copy) =>
        /\ app \in {None, First}
        /\ recon.at \notin {"reread", "replace", "mirror", "write", "push"}
        /\ recon.at \in {"recorded", "ask", "adopt"} => recon.local = copy
        /\ \A s \in Pages :
            /\ page[s].at \notin {"mirror", "write"}
            /\ page[s].at = "open" => On(page[s].shown) \/ page[s].held

Guarded ==
    /\ Typed
    /\ AppLeads
    /\ OnlyFirst
    /\ ChoiceWaits

\* All of it, in an install whose pages saved nothing before its first committed record
IInv == Typed /\ (~early => Guarded)

\* The first record, and no record
LEMMA FirstRecord ==
    /\ IsCommitted(First) /\ First.on = TRUE /\ First.gen = 0 /\ First.order = 0
    /\ First # None /\ ~IsCommitted(None) /\ ~OffChoice(First)
    /\ ReconIdle.app = None /\ ReconIdle.at = "idle"
    /\ PageClosed.at = "closed"
<1>1. IsCommitted(None) = FALSE
  BY DEF IsCommitted
<1> QED
  BY <1>1, Constants DEF First, IsCommitted, OffChoice, ReconIdle, PageClosed

\* Nothing is under way in the first state, and both sides hold the same record.
LEMMA InitInvariant == Init => Guarded
<1> SUFFICES ASSUME Init PROVE Guarded
  OBVIOUS
<1>1. recon = ReconIdle /\ copy = app /\ \A s \in Pages : page[s] = PageClosed
  BY DEF Init
<1>2. recon.app = None /\ recon.at = "idle" /\ \A s \in Pages : page[s].at = "closed"
  BY <1>1, FirstRecord
<1>3. AppLeads /\ OnlyFirst
  BY <1>2, FirstRecord DEF AppLeads, OnlyFirst, Untouched
<1>4. Untouched(app) => ~OffChoice(copy)
  BY <1>1, FirstRecord DEF Untouched, OffChoice, IsCommitted
<1> QED
  BY <1>3, <1>4, InitTypes DEF Guarded, ChoiceWaits

(***************************************************************************)
(* The app's own commits leave the untouched record for good.              *)
(***************************************************************************)
LEMMA AppStepInvariant ==
    ASSUME Guarded, AppStep, ~Reinstall
    PROVE  Guarded'
<1>1. Typed'
  BY AppTypes DEF AppStep, Guarded
<1>2. CASE Initialize
  <2>1. UNCHANGED <<copy, recon, page>> /\ ~IsCommitted(app)
    BY <1>2 DEF Initialize, storage, background
  <2>2. app' = First \/ (app \in Record /\ app' = Converted(app))
    BY <1>2 DEF Initialize, Guarded, Typed, Types, Maybe
  <2>3. IsCommitted(app') /\ (Untouched(app)' => app' = First)
    <3>1. app' = First => IsCommitted(app')
      BY FirstRecord
    <3>2. ASSUME app \in Record, app' = Converted(app) PROVE IsCommitted(app')
      <4>1. app' \in Record /\ app'.atomic = TRUE
        BY <3>2, RecordFields DEF Converted, First
      <4> QED
        BY <4>1, Constants DEF IsCommitted
    <3> QED
      BY <2>2, <3>1, <3>2 DEF Untouched
  <2>4. Untouched(app)
    BY <2>1 DEF Untouched
  <2> QED
    BY <1>1, <2>1, <2>3, <2>4 DEF Guarded, AppLeads, OnlyFirst, ChoiceWaits
<1>3. CASE Publish
  BY <1>1, <1>3 DEF Publish, Guarded, AppLeads, OnlyFirst, ChoiceWaits, storage, background
<1>4. CASE AppCommit \/ EnterScope
  <2>1. UNCHANGED <<copy, recon, page>> /\ IsCommitted(app)
    BY <1>4 DEF AppCommit, EnterScope, storage, background
  <2>2. app \in Record /\ app.order \in Nat
    <3>1. app \in Record
      BY <2>1 DEF Guarded, Typed, Types, Maybe, IsCommitted
    <3>2. app.order \in 0..MaxOrder
      BY <3>1, RecordFields
    <3> QED
      BY <3>1, <3>2, Constants
  <2>3. app'.atomic = app.atomic /\ app'.order = app.order + 1
    BY <1>4, <2>2 DEF AppCommit, EnterScope, Record
  <2>4. app' # None
    BY <1>4, CommitRecord, Constants DEF Guarded
  <2>5. IsCommitted(app') /\ app' # First
    BY <2>1, <2>2, <2>3, <2>4, FirstRecord DEF IsCommitted
  <2> QED
    BY <1>1, <2>1, <2>5 DEF Guarded, AppLeads, OnlyFirst, ChoiceWaits, Untouched
<1> QED
  BY <1>2, <1>3, <1>4 DEF AppStep

\* A reinstall ends every reconcile and every page: whatever the last install did,
\* nobody holds anything.
LEMMA ReinstallInvariant == ASSUME Typed, Reinstall PROVE Guarded'
<1>1. Typed'
  BY ReinstallTypes
<1>2. /\ app' = None /\ recon' = ReconIdle
      /\ page' = [s \in Pages |-> PageClosed]
  BY DEF Reinstall
<1>3. recon'.app = None /\ recon'.at = "idle" /\ \A s \in Pages : page'[s].at = "closed"
  BY <1>2, FirstRecord
<1> QED
  BY <1>1, <1>2, <1>3, FirstRecord DEF Guarded, AppLeads, OnlyFirst, ChoiceWaits, Untouched

(***************************************************************************)
(* A step of the background that leaves both records alone.                *)
(***************************************************************************)
LEMMA ReconStep ==
    ASSUME Guarded, Typed', app' = app, copy' = copy, page' = page,
           IsCommitted(recon'.app) => IsCommitted(app),
           recon'.at = "adopt" => IsCommitted(app),
           recon'.at = "push" => recon'.local # None /\ ~IsCommitted(recon'.local),
           Untouched(app) =>
                /\ Untouched(recon'.app)
                /\ recon'.at \in {"reread", "replace"} => recon'.target = First,
           Untouched(app) /\ OffChoice(copy) =>
                /\ recon'.at \notin {"reread", "replace", "mirror", "write", "push"}
                /\ recon'.at \in {"recorded", "ask", "adopt"} => recon'.local = copy
    PROVE  Guarded'
<1>1. AppLeads'
  BY DEF AppLeads
<1>2. OnlyFirst'
  BY DEF Guarded, OnlyFirst
<1>3. ChoiceWaits'
  BY DEF Guarded, ChoiceWaits
<1> QED
  BY <1>1, <1>2, <1>3 DEF Guarded

\* A reconcile that has not decided, or has nothing left to write, is harmless.
LEMMA EarlyStep ==
    ASSUME Guarded, Typed', app' = app, copy' = copy, page' = page,
           \/ recon' = recon
           \/ /\ recon'.app \in {recon.app, app, None}
              /\ recon'.at \in {"idle", "seed", "app", "local", "settle", "pull", "compare"}
    PROVE  Guarded'
<1>1. CASE recon' = recon
  BY <1>1, ReconStep DEF Guarded, AppLeads, OnlyFirst, ChoiceWaits
<1>2. CASE /\ recon'.app \in {recon.app, app, None}
           /\ recon'.at \in {"idle", "seed", "app", "local", "settle", "pull", "compare"}
  <2>1. IsCommitted(recon'.app) => IsCommitted(app)
    BY <1>2, FirstRecord DEF Guarded, AppLeads
  <2>2. Untouched(app) => Untouched(recon'.app)
    BY <1>2, FirstRecord DEF Guarded, OnlyFirst, Untouched
  <2> QED
    BY <1>2, <2>1, <2>2, ReconStep
<1> QED
  BY <1>1, <1>2

\* Starting, stopping, seeding and pulling touch neither record.
LEMMA BackgroundInvariant ==
    ASSUME Guarded, Nudge \/ Stop \/ Seeding \/ Pulling
    PROVE  Guarded'
<1>1. Typed'
  BY NudgeTypes, SeedingTypes, PullingTypes DEF Guarded
<1>2. app' = app /\ copy' = copy /\ page' = page
  BY DEF Nudge, Stop, Seeding, SeedRead, SeedReadPull, SeedCheck, SeedWrite,
         Pulling, PullAsk, PullRecord, app_vars, storage
<1>3. recon \in ReconRecord
  BY DEF Guarded, Typed, Types
<1>4. CASE Nudge \/ Stop
  <2>1. recon'.app = None /\ recon'.at \in {"seed", "idle"}
    <3>1. recon' \in {ReconIdle, [ReconIdle EXCEPT !.at = "seed"]}
      BY <1>4 DEF Nudge, Stop
    <3> QED
      BY <3>1 DEF ReconIdle
  <2> QED
    BY <1>1, <1>2, <2>1, EarlyStep
<1>5. CASE Seeding
  <2>1. recon' = recon \/ recon' = [recon EXCEPT !.at = "app"]
    BY <1>5 DEF Seeding, SeedRead, SeedReadPull, SeedCheck, SeedWrite, Seeded
  <2>2. [recon EXCEPT !.at = "app"].at = "app" /\ [recon EXCEPT !.at = "app"].app = recon.app
    BY <1>3 DEF ReconRecord
  <2> QED
    BY <1>1, <1>2, <2>1, <2>2, EarlyStep
<1>6. CASE Pulling
  <2>1. recon' = recon
    BY <1>6 DEF Pulling, PullAsk, PullRecord
  <2> QED
    BY <1>1, <1>2, <2>1, EarlyStep
<1> QED
  BY <1>4, <1>5, <1>6

\* What a settling, replacing or following reconcile holds
LEMMA ReconShapes ==
    ASSUME NEW r \in ReconRecord
    PROVE  /\ \A f \in BOOLEAN : Settling(r, f).app = None /\ Settling(r, f).at = "settle"
           /\ \A a \in Maybe : /\ Replacing(r, a).app = None /\ Replacing(r, a).at = "reread"
                               /\ Replacing(r, a).target = a
           /\ Following.app = None /\ Following.at = "pull"
  BY DEF Settling, Replacing, Following, ReconIdle

(***************************************************************************)
(* The decision on an untouched record offers a copy that differs in what  *)
(* was chosen, and never replaces it.                                      *)
(***************************************************************************)
LEMMA DecisionStep ==
    ASSUME Guarded, Typed', app' = app, copy' = copy, page' = page,
           NEW r \in ReconRecord, recon' = Decision(r),
           r.app = recon.app, r.local = recon.local,
           recon.at \in {"recorded", "ask"}
    PROVE  Guarded'
<1>1. IsCommitted(r.app) => IsCommitted(app)
  BY DEF Guarded, AppLeads
<1>2. Untouched(app) => Untouched(r.app)
  BY DEF Guarded, OnlyFirst
<1>3. Untouched(app) /\ OffChoice(copy) => r.local = copy
  BY DEF Guarded, ChoiceWaits
<1>4. r.app \in Maybe
  BY DEF ReconRecord
<1>5. CASE recon' = Following \/ recon' = Settling(r, TRUE)
  BY <1>5, ReconShapes, EarlyStep
<1>6. CASE /\ recon' = Replacing(r, r.app) /\ r.app # None /\ r.app.atomic
           /\ UntouchedFirst(r.app) => SameFirstChoices(r.local, r.app)
  <2>1. Untouched(app) => r.app = First
    BY <1>2, <1>6 DEF Untouched, IsCommitted
  <2>2. UntouchedFirst(First) /\ (SameFirstChoices(r.local, First) => r.local.on = TRUE)
    BY FirstRecord DEF UntouchedFirst, SameFirstChoices, IsCommitted
  <2>3. ~(Untouched(app) /\ OffChoice(copy))
    BY <1>3, <1>6, <2>1, <2>2 DEF OffChoice
  <2> QED
    BY <1>4, <1>6, <2>1, <2>3, ReconShapes, ReconStep, FirstRecord DEF Untouched
<1>7. CASE recon' = [r EXCEPT !.at = "adopt", !.app = None] /\ r.app # None /\ r.app.atomic
  <2>1. recon'.at = "adopt" /\ recon'.app = None /\ recon'.local = r.local
    BY <1>7 DEF ReconRecord
  <2>2. IsCommitted(app)
    BY <1>1, <1>7 DEF IsCommitted
  <2> QED
    BY <1>3, <2>1, <2>2, ReconStep, FirstRecord DEF Untouched
<1> QED
  BY <1>5, <1>6, <1>7 DEF Decision

\* A reconcile reads the two records, the recorded id and the app's, then decides.
LEMMA ReadingInvariant ==
    ASSUME Guarded, NEW lost \in BOOLEAN,
           PullFromApp(lost) \/ ReadLocal \/ ReadRecorded \/ AskInstallId(lost)
    PROVE  Guarded'
<1>1. Typed'
  BY ReadingTypes DEF Guarded
<1>2. app' = app /\ copy' = copy /\ page' = page
  BY DEF PullFromApp, ReadLocal, ReadRecorded, AskInstallId, app_vars, storage
<1>3. recon \in ReconRecord
  BY DEF Guarded, Typed, Types
<1>4. CASE PullFromApp(lost)
  <2>1. recon'.at \in {"local", "compare"} /\ recon'.app \in {app, None}
    BY <1>3, <1>4 DEF PullFromApp, ReconRecord
  <2> QED
    BY <1>1, <1>2, <2>1, EarlyStep
<1>5. CASE ReadLocal
  <2>1. recon'.at = "recorded" /\ recon'.app = recon.app /\ recon'.local = copy
    BY <1>3, <1>5 DEF ReadLocal, ReconRecord
  <2> QED
    BY <1>1, <1>2, <2>1, ReconStep DEF Guarded, AppLeads, OnlyFirst
<1>6. CASE ReadRecorded
  <2> DEFINE read == [recon EXCEPT !.recorded = copyId, !.id = copyId]
             ask == [read EXCEPT !.at = "ask", !.id = 0]
  <2>1. /\ read \in ReconRecord /\ read.app = recon.app /\ read.local = recon.local
        /\ ask.at = "ask" /\ ask.app = recon.app /\ ask.local = recon.local
    BY <1>3 DEF ReconRecord, Guarded, Typed, Types
  <2>2. recon.at = "recorded" /\ (recon' = Decision(read) \/ recon' = ask)
    BY <1>6 DEF ReadRecorded
  <2> HIDE DEF read, ask
  <2>3. CASE recon' = ask
    BY <1>1, <1>2, <2>1, <2>2, <2>3, ReconStep DEF Guarded, AppLeads, OnlyFirst, ChoiceWaits
  <2> QED
    BY <1>1, <1>2, <2>1, <2>2, <2>3, DecisionStep
<1>7. CASE AskInstallId(lost)
  <2> DEFINE r == [recon EXCEPT !.id = IF lost THEN 0 ELSE InstallId]
  <2>1. r \in ReconRecord /\ r.app = recon.app /\ r.local = recon.local
    BY <1>3, InstallIdType, Constants DEF ReconRecord, Guarded
  <2>2. recon.at = "ask" /\ recon' = Decision(r)
    BY <1>7 DEF AskInstallId
  <2> HIDE DEF r
  <2> QED
    BY <1>1, <1>2, <2>1, <2>2, DecisionStep
<1> QED
  BY <1>4, <1>5, <1>6, <1>7

\* What the app answers to an offer: it saves a committed record, which is its first
\* one still only if the offer was that record or could not be adopted.
LEMMA AdoptionFacts ==
    ASSUME NEW r \in Record, r.atomic, NEW offered \in Record
    PROVE  LET adoption == Adoption(r, offered) IN
           /\ adoption.record \in Record /\ adoption.record.atomic
           /\ adoption.record = First => r = First
           /\ r = First /\ OffChoice(offered) => adoption.record # First
<1> DEFINE whole == IF offered.atomic THEN offered ELSE Converted(offered)
           next == [whole EXCEPT !.order = @ + 1]
<1>1. whole \in Record /\ whole.atomic /\ whole.order \in 0..MaxOrder
  <2>1. Converted(offered) \in Record /\ Converted(offered).atomic
    BY RecordFields DEF Converted, First
  <2> QED
    BY <2>1, RecordFields
<1>2. ASSUME Adoptable(whole)
      PROVE  next \in Record /\ next.atomic /\ next # First
  <2>1. whole.order + 1 \in 0..MaxOrder /\ whole.order + 1 # 0
    BY <1>1, <1>2, Constants DEF Adoptable
  <2>2. next \in Record
    BY <1>1, <2>1, RecordFields
  <2>3. next.atomic = whole.atomic /\ next.order = whole.order + 1
    BY <1>1 DEF Record
  <2> QED
    BY <1>1, <2>1, <2>2, <2>3, FirstRecord
<1>3. OffChoice(offered) => whole = offered /\ Adoptable(whole) /\ offered # First
  BY FirstRecord DEF OffChoice
<1> HIDE DEF whole
<1>4. CASE r # First \/ offered = First \/ ~Adoptable(whole)
  <2>1. Adoption(r, offered).record = r
    BY <1>4 DEF Adoption, whole
  <2> QED
    BY <1>3, <1>4, <2>1
<1>5. CASE r = First /\ offered # First /\ Adoptable(whole)
  <2>1. Adoption(r, offered).record = next
    BY <1>5 DEF Adoption, whole
  <2> QED
    BY <1>2, <1>5, <2>1
<1> QED
  BY <1>4, <1>5

\* The offer: the app leaves its untouched record when it adopts a choice, and
\* answers with its own, which then replaces the copy, only if none can be adopted.
LEMMA AdoptInvariant ==
    ASSUME Guarded, NEW lost \in BOOLEAN, Adopt(lost)
    PROVE  Guarded'
<1> DEFINE adoption == Adoption(app, recon.local)
<1>1. Typed'
  BY AdoptTypes DEF Guarded
<1>2. /\ recon \in ReconRecord /\ recon.at = "adopt" /\ recon.local \in Record
      /\ app \in Record /\ app.atomic
  BY DEF Adopt, Guarded, Typed, Types, OffersRecord, ReconRecord, Maybe, AppLeads, IsCommitted
<1>3. /\ adoption.record \in Record /\ adoption.record.atomic
      /\ adoption.record = First => app = First
      /\ app = First /\ OffChoice(recon.local) => adoption.record # First
  BY <1>2, AdoptionFacts
<1>4. /\ copy' = copy /\ page' = page
      /\ app' \in {adoption.record, app}
      /\ ~lost => app' = adoption.record
      /\ recon' \in {ReconIdle, Replacing(recon, adoption.record), Settling(recon, TRUE)}
      /\ lost => recon' = ReconIdle
  BY DEF Adopt, storage
<1> HIDE DEF adoption
<1>5. app' # None /\ app'.atomic /\ (Untouched(app)' => app' = First /\ app = First)
  BY <1>2, <1>3, <1>4, Constants DEF Untouched, IsCommitted
<1>6. recon'.app = None /\ recon'.at \in {"idle", "reread", "settle"}
  <2>1. CASE recon' \in {ReconIdle, Settling(recon, TRUE)}
    <3>1. CASE recon' = ReconIdle
      BY <3>1, FirstRecord
    <3>2. CASE recon' = Settling(recon, TRUE)
      BY <1>2, <3>2, ReconShapes
    <3> QED
      BY <2>1, <3>1, <3>2
  <2>2. CASE recon' = Replacing(recon, adoption.record)
    BY <1>2, <1>3, <2>2, ReconShapes DEF Maybe
  <2> QED
    BY <1>4, <2>1, <2>2
<1>7. AppLeads'
  BY <1>6, FirstRecord DEF AppLeads
<1>8. OnlyFirst'
  <2> SUFFICES ASSUME Untouched(app)'
               PROVE  /\ Untouched(recon'.app)
                      /\ recon'.at \in {"reread", "replace"} => recon'.target = First
                      /\ \A s \in Pages : page'[s].at \in {"mirror", "write"}
                                            => page'[s].record = First
    BY DEF OnlyFirst
  <2>1. app' = First /\ Untouched(app)
    BY <1>5 DEF Untouched
  <2>2. recon'.at = "reread" => recon'.target = First
    <3>1. CASE recon' \in {ReconIdle, Settling(recon, TRUE)}
      BY <1>2, <3>1, ReconShapes, FirstRecord
    <3>2. CASE recon' = Replacing(recon, adoption.record) /\ ~lost
      BY <1>2, <1>3, <1>4, <2>1, <3>2, ReconShapes DEF Maybe
    <3> QED
      BY <1>4, <3>1, <3>2
  <2> QED
    BY <1>4, <1>6, <2>1, <2>2, FirstRecord DEF Guarded, OnlyFirst, Untouched
<1>9. ChoiceWaits'
  <2> SUFFICES ASSUME Untouched(app)', OffChoice(copy)
               PROVE  /\ recon'.at \notin {"reread", "recorded", "ask", "adopt"}
                      /\ app' = First
                      /\ Untouched(app)
    BY <1>4, <1>6 DEF Guarded, ChoiceWaits
  <2>1. app' = First /\ app = First /\ Untouched(app)
    BY <1>5 DEF Untouched
  <2>2. recon.local = copy
    BY <1>2, <2>1 DEF Guarded, ChoiceWaits
  <2>3. lost
    BY <1>3, <1>4, <2>1, <2>2
  <2> QED
    BY <1>4, <2>1, <2>3, FirstRecord
<1> QED
  BY <1>1, <1>7, <1>8, <1>9 DEF Guarded

(***************************************************************************)
(* Neither the replacement of the copy nor the ordinary reconcile reaches  *)
(* a write while a choice waits: the untouched record outranks no choice.  *)
(***************************************************************************)
LEMMA FirstOutranksNoChoice ==
    ASSUME NEW r \in Maybe, r # None, Untouched(r), NEW c \in Maybe, OffChoice(c)
    PROVE  ~Outranks(r, c)
<1>1. r \in Record /\ c \in Record /\ c.atomic
  BY DEF Maybe, OffChoice
<1>2. c.gen \in 0..MaxGeneration /\ c.order \in 0..MaxOrder
  BY <1>1, RecordFields
<1>3. CASE r = First
  <2>1. ~(First.gen > c.gen) /\ ~(First.order > c.order)
    BY <1>2, FirstRecord, Constants
  <2> QED
    BY <1>1, <1>3, <2>1, FirstRecord DEF Outranks, IsCommitted, OffChoice
<1>4. CASE ~r.atomic
  BY <1>1, <1>4, RecordFields DEF Outranks, OffChoice
<1> QED
  BY <1>3, <1>4 DEF Untouched, IsCommitted

\* What follows the decision without writing the copy
LEMMA FollowingInvariant ==
    ASSUME Guarded, Reread \/ Settle \/ Compare \/ MirrorApp
    PROVE  Guarded'
<1>1. Typed'
  <2>1. FALSE \in BOOLEAN
    OBVIOUS
  <2> QED
    BY <2>1, FollowingTypes DEF Guarded
<1>2. app' = app /\ copy' = copy /\ page' = page
  BY DEF Reread, Settle, Compare, MirrorApp, app_vars, storage
<1>3. /\ recon \in ReconRecord /\ recon.app \in Maybe /\ copy \in Maybe
  BY DEF Guarded, Typed, Types, ReconRecord
<1>4. CASE recon' \in {ReconIdle, Settling(recon, FALSE), Following}
  BY <1>1, <1>2, <1>3, <1>4, ReconShapes, FirstRecord, EarlyStep
<1>5. CASE Reread /\ recon' = [recon EXCEPT !.at = "replace"]
  <2>1. /\ recon.at = "reread" /\ recon'.at = "replace"
        /\ recon'.app = recon.app /\ recon'.target = recon.target
    BY <1>3, <1>5 DEF Reread, ReconRecord
  <2> QED
    BY <1>1, <1>2, <2>1, ReconStep DEF Guarded, AppLeads, OnlyFirst, ChoiceWaits
<1>6. CASE Compare /\ recon' = [recon EXCEPT !.at = "mirror"]
               /\ recon.app # None /\ Outranks(recon.app, copy)
  <2>1. recon'.at = "mirror" /\ recon'.app = recon.app
    BY <1>3, <1>6 DEF ReconRecord
  <2>2. ~(Untouched(app) /\ OffChoice(copy))
    BY <1>3, <1>6, FirstOutranksNoChoice DEF Guarded, OnlyFirst
  <2> QED
    BY <1>1, <1>2, <2>1, <2>2, ReconStep DEF Guarded, AppLeads, OnlyFirst
<1>7. CASE Compare /\ recon' = [ReconIdle EXCEPT !.at = "push", !.local = copy]
               /\ copy # None /\ ~copy.atomic
  <2>1. recon'.at = "push" /\ recon'.app = None /\ recon'.local = copy
    BY <1>7 DEF ReconIdle
  <2>2. ~OffChoice(copy) /\ ~IsCommitted(copy)
    BY <1>7 DEF OffChoice, IsCommitted
  <2> QED
    BY <1>1, <1>2, <1>7, <2>1, <2>2, ReconStep, FirstRecord DEF Untouched
<1>8. CASE MirrorApp /\ recon' = [recon EXCEPT !.at = "write"]
  <2>1. recon.at = "mirror" /\ recon'.at = "write" /\ recon'.app = recon.app
    BY <1>3, <1>8 DEF MirrorApp, ReconRecord
  <2> QED
    BY <1>1, <1>2, <2>1, ReconStep DEF Guarded, AppLeads, OnlyFirst, ChoiceWaits
<1>9. CASE Reread
  BY <1>4, <1>5, <1>9 DEF Reread
<1>10. CASE Settle
  BY <1>4, <1>10 DEF Settle
<1>11. CASE Compare
  <2>1. \/ recon' = ReconIdle
        \/ /\ recon' = [recon EXCEPT !.at = "mirror"]
           /\ recon.app # None /\ Outranks(recon.app, copy)
        \/ /\ recon' = [ReconIdle EXCEPT !.at = "push", !.local = copy]
           /\ copy # None /\ ~copy.atomic
    <3>1. CASE recon.app # None /\ Outranks(recon.app, copy)
      BY <1>11, <3>1 DEF Compare
    <3>2. CASE ~(recon.app # None /\ Outranks(recon.app, copy))
      BY <1>11, <3>2, Zenon DEF Compare
    <3> QED
      BY <3>1, <3>2
  <2> QED
    BY <1>4, <1>6, <1>7, <1>11, <2>1
<1>12. CASE MirrorApp
  BY <1>4, <1>8, <1>12 DEF MirrorApp
<1> QED
  BY <1>9, <1>10, <1>11, <1>12

\* The background's writes of the copy carry what the app holds.
LEMMA WritingInvariant ==
    ASSUME Guarded, Replace \/ WriteCopy
    PROVE  Guarded'
<1>1. Typed'
  <2>1. FALSE \in BOOLEAN
    OBVIOUS
  <2> QED
    BY <2>1, FollowingTypes DEF Guarded
<1>2. app' = app /\ page' = page
  BY DEF Replace, WriteCopy, app_vars
<1>3. recon'.app = None /\ recon'.at \in {"settle", "idle"}
  <2>1. recon \in ReconRecord
    BY DEF Guarded, Typed, Types
  <2> QED
    BY <2>1, ReconShapes, FirstRecord DEF Replace, WriteCopy
<1>4. Untouched(app) => ~OffChoice(copy')
  <2> SUFFICES ASSUME Untouched(app) PROVE ~OffChoice(copy')
    OBVIOUS
  <2>1. CASE Replace
    BY <2>1, FirstRecord DEF Replace, Guarded, OnlyFirst
  <2>2. CASE WriteCopy
    BY <2>2, FirstRecord DEF WriteCopy, Guarded, OnlyFirst, Untouched, OffChoice, IsCommitted
  <2> QED
    BY <2>1, <2>2
<1>5. AppLeads' /\ OnlyFirst'
  BY <1>2, <1>3, FirstRecord DEF Guarded, AppLeads, OnlyFirst, Untouched
<1>6. ChoiceWaits'
  BY <1>2, <1>4 DEF ChoiceWaits
<1> QED
  BY <1>1, <1>5, <1>6 DEF Guarded

\* A legacy record that is pushed replaces no committed one.
LEMMA PushInvariant ==
    ASSUME Guarded, NEW lost \in BOOLEAN, Push(lost)
    PROVE  Guarded'
<1>1. Typed'
  BY FollowingTypes DEF Guarded
<1>2. copy' = copy /\ page' = page /\ recon'.app = None /\ recon'.at = "idle"
  BY FirstRecord DEF Push, storage
<1>3. recon.at = "push" /\ recon.local # None /\ ~recon.local.atomic
  BY DEF Push, Guarded, AppLeads, IsCommitted
<1>4. app' = app \/ (~IsCommitted(app) /\ app' = recon.local)
  BY <1>3 DEF Push, Pushed, Outranks, IsCommitted
<1>5. Untouched(app)' => Untouched(app)
  BY <1>4 DEF Untouched
<1>6. AppLeads' /\ OnlyFirst'
  BY <1>2, <1>5, FirstRecord DEF Guarded, AppLeads, OnlyFirst, Untouched
<1>7. ChoiceWaits'
  BY <1>2, <1>3, <1>5 DEF Guarded, ChoiceWaits
<1> QED
  BY <1>1, <1>6, <1>7 DEF Guarded

(***************************************************************************)
(* The pages: on an untouched record a page saves nothing but that record  *)
(* again, and one that shows a waiting choice holds it.                    *)
(***************************************************************************)
LEMMA SavedFacts ==
    ASSUME NEW r \in Record, r.atomic, NEW on \in BOOLEAN, NEW s \in Saved(r, on)
    PROVE  /\ s \in Record /\ s.atomic
           /\ s = First => r = First /\ on = TRUE
<1>1. r # None /\ r.on \in BOOLEAN /\ r.order \in 0..MaxOrder
  BY RecordFields
<1>2. IsCommitted(r) /\ On(r) = r.on
  BY <1>1 DEF IsCommitted, On
<1>3. CASE r.on = on
  <2>1. On(r) = on
    BY <1>2, <1>3
  <2>2. Saved(r, on) = {r}
    BY <1>1, <1>2, <2>1 DEF Saved
  <2>3. s = r
    BY <2>2
  <2> QED
    BY <1>3, <2>3, FirstRecord
<1>4. CASE r.on # on
  <2>1. PICK n \in 1..MaxOrder : s = [r EXCEPT !.order = n, !.on = on]
    BY <1>1, <1>2, <1>4 DEF Saved
  <2>2. n \in 0..MaxOrder /\ n # 0
    BY Constants
  <2>3. s \in Record
    BY <2>1, <2>2, RecordFields
  <2>4. s.atomic = r.atomic /\ s.order = n
    BY <2>1 DEF Record
  <2> QED
    BY <2>2, <2>3, <2>4, FirstRecord
<1> QED
  BY <1>3, <1>4

\* A page that writes neither record, and shows no choice it could save as On
LEMMA PageOnly ==
    ASSUME Guarded, Typed', NEW s \in Pages, NEW p \in PageRecord,
           page' = [page EXCEPT ![s] = p], UNCHANGED <<app, copy, recon>>,
           Untouched(app) => (p.at \in {"mirror", "write"} => p.record = First),
           Untouched(app) /\ OffChoice(copy) =>
                /\ p.at \notin {"mirror", "write"}
                /\ p.at = "open" => On(p.shown) \/ p.held
    PROVE  Guarded'
<1>1. /\ page'[s] = p
      /\ \A t \in Pages : t # s => page'[t] = page[t]
  BY DEF Guarded, Typed, Types
<1>2. AppLeads'
  BY DEF Guarded, AppLeads
<1>3. OnlyFirst'
  BY <1>1 DEF Guarded, OnlyFirst
<1>4. ChoiceWaits'
  BY <1>1 DEF Guarded, ChoiceWaits
<1> QED
  BY <1>2, <1>3, <1>4 DEF Guarded

\* What a page is after its choice was answered
LEMMA AnsweredFacts ==
    ASSUME NEW p \in PageRecord
    PROVE  Answered(p) \in PageRecord /\ Answered(p).at = "open"
  BY Constants DEF Answered, PageRecord, PageSteps

\* A page shows what it has read; answered by the copy alone, it is held.
LEMMA OpenInvariant ==
    ASSUME Guarded, NEW s \in Pages, NEW lost \in BOOLEAN, Open(s, lost)
    PROVE  Guarded'
<1> DEFINE read == IF lost THEN copy ELSE app
           p == [at |-> "open", shown |-> read, v3 |-> IsCommitted(read),
                 held |-> lost /\ IsCommitted(read), record |-> None]
<1>1. Typed'
  BY PageTypes DEF Guarded, PageStep
<1>2. page' = [page EXCEPT ![s] = p] /\ UNCHANGED <<app, copy, recon>>
  BY DEF Open, app_vars, storage, background
<1>3. p \in PageRecord
  BY <1>1, <1>2 DEF Guarded, Typed, Types
<1>4. p.at = "open" /\ p.shown = read /\ p.held = (lost /\ IsCommitted(read))
  OBVIOUS
<1> HIDE DEF p
<1>5. Untouched(app) /\ OffChoice(copy) => On(p.shown) \/ p.held
  <2> SUFFICES ASSUME Untouched(app), OffChoice(copy) PROVE On(p.shown) \/ p.held
    OBVIOUS
  <2>1. CASE lost
    BY <1>4, <2>1 DEF OffChoice, IsCommitted
  <2>2. CASE ~lost
    BY <1>4, <2>2, FirstRecord DEF Guarded, ChoiceWaits, On
  <2> QED
    BY <2>1, <2>2
<1> QED
  BY <1>1, <1>2, <1>3, <1>4, <1>5, PageOnly

\* A choice is saved only on a committed record; it is a new record, unless the app's
\* first one has the choice already.
LEMMA CommitInvariant ==
    ASSUME Guarded, IsCommitted(app), NEW s \in Pages, NEW lost \in BOOLEAN, Commit(s, lost)
    PROVE  Guarded'
<1> DEFINE on == ~On(page[s].shown)
<1>1. Typed'
  BY PageTypes DEF Guarded, PageStep
<1>2. /\ page \in [Pages -> PageRecord] /\ page[s].at = "open" /\ ~page[s].held
      /\ app \in Record /\ app.atomic
      /\ copy' = copy /\ recon' = recon
  BY DEF Commit, Guarded, Typed, Types, Maybe, IsCommitted, storage, background
<1>3. PICK r \in Saved(app, on) :
         /\ app' = r
         /\ page' = [page EXCEPT ![s] =
              IF lost THEN [page[s] EXCEPT !.held = page[s].held \/ page[s].v3]
              ELSE [page[s] EXCEPT !.at = "mirror",
                                   !.record = IF r = None THEN Absent ELSE r]]
  BY DEF Commit
<1>4. on \in BOOLEAN
  OBVIOUS
<1> HIDE DEF on
<1>5. /\ app' \in Record /\ app'.atomic
      /\ app' = First => app = First /\ on = TRUE
  BY <1>2, <1>3, <1>4, SavedFacts
<1>6. IsCommitted(app') /\ (Untouched(app)' => app' = First /\ app = First /\ Untouched(app))
  BY <1>5, Constants DEF Untouched, IsCommitted
<1>7. Untouched(app)' => ~OffChoice(copy)
  BY <1>2, <1>5, <1>6 DEF Guarded, ChoiceWaits, on
<1>8. /\ page'[s].at = "mirror" => page'[s].record = app'
      /\ page'[s].at \in {"open", "mirror"}
      /\ \A t \in Pages : t # s => page'[t] = page[t]
  <2>1. page[s] \in PageRecord
    BY <1>2
  <2>2. r # None
    BY <1>3, <1>5, Constants
  <2>3. CASE lost
    BY <1>2, <1>3, <2>1, <2>3 DEF PageRecord
  <2>4. CASE ~lost
    BY <1>2, <1>3, <2>1, <2>2, <2>4 DEF PageRecord
  <2> QED
    BY <2>3, <2>4
<1>9. AppLeads'
  BY <1>2, <1>6 DEF Guarded, AppLeads
<1>10. OnlyFirst'
  BY <1>2, <1>6, <1>8 DEF Guarded, OnlyFirst
<1>11. ChoiceWaits'
  BY <1>2, <1>7 DEF ChoiceWaits
<1> QED
  BY <1>1, <1>9, <1>10, <1>11 DEF Guarded

\* Every step of a page that saves nothing before the app has committed
LEMMA PageInvariant ==
    ASSUME Guarded, NEW s \in Pages, PageStep(s), ~early'
    PROVE  Guarded'
<1>1. Typed'
  BY PageTypes DEF Guarded
<1>2. page \in [Pages -> PageRecord] /\ page[s] \in PageRecord
  BY DEF Guarded, Typed, Types
<1>3. CASE Close(s)
  <2>1. page' = [page EXCEPT ![s] = PageClosed] /\ UNCHANGED <<app, copy, recon>>
    BY <1>3 DEF Close, app_vars, storage, background
  <2> QED
    BY <1>1, <2>1, Idles, FirstRecord, PageOnly
<1>4. CASE Refresh(s)
  <2> DEFINE p == [page[s] EXCEPT !.shown = app, !.held = FALSE]
  <2>1. page' = [page EXCEPT ![s] = p] /\ UNCHANGED <<app, copy, recon>>
    BY <1>4 DEF Refresh, app_vars, storage, background
  <2>2. p \in PageRecord /\ p.at = "open" /\ p.shown = app
    BY <1>2, <1>4 DEF Refresh, PageRecord, Guarded, Typed, Types
  <2>3. Untouched(app) /\ OffChoice(copy) => On(app)
    BY FirstRecord DEF Guarded, ChoiceWaits, On
  <2> HIDE DEF p
  <2> QED
    BY <1>1, <2>1, <2>2, <2>3, PageOnly
<1>5. CASE Mirror(s)
  <2> DEFINE p == IF Yields(copy, page[s].record)
                    THEN [page[s] EXCEPT !.at = "write"] ELSE Answered(page[s])
  <2>1. page' = [page EXCEPT ![s] = p] /\ UNCHANGED <<app, copy, recon>>
    BY <1>5 DEF Mirror, app_vars, storage, background
  <2>2. /\ p \in PageRecord /\ p.at \in {"write", "open"}
        /\ p.at = "write" => p.record = page[s].record
    BY <1>2, AnsweredFacts DEF PageRecord, PageSteps
  <2>3. page[s].at = "mirror"
    BY <1>5 DEF Mirror
  <2> HIDE DEF p
  <2> QED
    BY <1>1, <2>1, <2>2, <2>3, PageOnly DEF Guarded, OnlyFirst, ChoiceWaits
<1>6. CASE Write(s)
  <2>1. /\ page[s].at = "write" /\ copy' = page[s].record
        /\ page' = [page EXCEPT ![s] = Answered(page[s])]
        /\ app' = app /\ recon' = recon
    BY <1>6 DEF Write, app_vars, background
  <2>2. /\ page'[s].at = "open"
        /\ \A t \in Pages : t # s => page'[t] = page[t]
    BY <1>2, <2>1, AnsweredFacts
  <2>3. Untouched(app) => ~OffChoice(copy')
    BY <2>1, FirstRecord DEF Guarded, OnlyFirst
  <2>4. AppLeads' /\ OnlyFirst'
    BY <2>1, <2>2 DEF Guarded, AppLeads, OnlyFirst
  <2>5. ChoiceWaits'
    BY <2>1, <2>3 DEF ChoiceWaits
  <2> QED
    BY <1>1, <2>4, <2>5 DEF Guarded
<1>7. ASSUME NEW lost \in BOOLEAN, Commit(s, lost) PROVE Guarded'
  <2>1. IsCommitted(app)
    BY <1>7 DEF Commit
  <2> QED
    BY <1>7, <2>1, CommitInvariant
<1> QED
  BY <1>3, <1>4, <1>5, <1>6, <1>7, OpenInvariant DEF PageStep

\* A step within an install never takes an early choice back.
LEMMA EarlyStays == ASSUME [Next]_vars, ~Reinstall, ~early' PROVE ~early
<1>1. CASE AppStep
  BY <1>1 DEF AppStep, Initialize, Publish, AppCommit, EnterScope
<1>2. CASE Nudge \/ Stop \/ Seeding \/ Pulling
  BY <1>2 DEF Nudge, Stop, Seeding, SeedRead, SeedReadPull, SeedCheck, SeedWrite,
              Pulling, PullAsk, PullRecord, app_vars
<1>3. CASE Reconciling
  BY <1>3 DEF Reconciling, PullFromApp, ReadLocal, ReadRecorded, AskInstallId, Adopt, Reread,
              Replace, Settle, Compare, MirrorApp, WriteCopy, Push, app_vars
<1>4. CASE \E s \in Pages : PageStep(s)
  BY <1>4 DEF PageStep, Close, Refresh, Mirror, Write, Open, Commit, app_vars
<1>5. CASE UNCHANGED vars
  BY <1>5 DEF vars, app_vars
<1> QED
  BY <1>1, <1>2, <1>3, <1>4, <1>5 DEF Next

\* Every step keeps the invariant: a reinstall starts it anew, an early choice ends
\* what it says of this install, and any other step finds it whole.
LEMMA StepInvariant == ASSUME IInv, [Next]_vars PROVE IInv'
<1>1. Typed'
  BY StepTypes DEF IInv
<1> SUFFICES ASSUME ~early' PROVE Guarded'
  BY <1>1 DEF IInv
<1>2. CASE Reinstall
  BY <1>2, ReinstallInvariant DEF IInv
<1>3. CASE ~Reinstall
  <2>1. Guarded
    BY <1>3, EarlyStays DEF IInv
  <2>2. CASE AppStep
    BY <1>3, <2>1, <2>2, AppStepInvariant
  <2>3. CASE Nudge \/ Stop \/ Seeding \/ Pulling
    BY <2>1, <2>3, BackgroundInvariant
  <2>4. CASE Reconciling
    BY <2>1, <2>4, ReadingInvariant, AdoptInvariant, FollowingInvariant, WritingInvariant,
       PushInvariant DEF Reconciling
  <2>5. CASE \E s \in Pages : PageStep(s)
    BY <2>1, <2>5, PageInvariant
  <2>6. CASE UNCHANGED vars
    BY <1>1, <2>1, <2>6, EarlyStep DEF vars, app_vars, storage, background
  <2> QED
    BY <2>2, <2>3, <2>4, <2>5, <2>6 DEF Next
<1> QED
  BY <1>2, <1>3

\* The steps that write the copy
LEMMA CopyWriters ==
    ASSUME [Next]_vars, copy' # copy
    PROVE  Replace \/ WriteCopy \/ \E s \in Pages : Write(s)
<1>1. ~AppStep
  BY DEF AppStep, Initialize, Publish, AppCommit, EnterScope, Reinstall, storage
<1>2. ~Nudge /\ ~Stop /\ ~Seeding /\ ~Pulling
  BY DEF Nudge, Stop, Seeding, SeedRead, SeedReadPull, SeedCheck, SeedWrite,
         Pulling, PullAsk, PullRecord, storage
<1>3. ~ReadLocal /\ ~ReadRecorded /\ ~Reread /\ ~Settle /\ ~Compare /\ ~MirrorApp
  BY DEF ReadLocal, ReadRecorded, Reread, Settle, Compare, MirrorApp, storage
<1>4. ASSUME NEW lost \in BOOLEAN
      PROVE  ~PullFromApp(lost) /\ ~AskInstallId(lost) /\ ~Adopt(lost) /\ ~Push(lost)
  BY DEF PullFromApp, AskInstallId, Adopt, Push, storage
<1>5. ASSUME NEW s \in Pages, NEW lost \in BOOLEAN
      PROVE  ~Close(s) /\ ~Refresh(s) /\ ~Mirror(s) /\ ~Open(s, lost) /\ ~Commit(s, lost)
  BY DEF Close, Refresh, Mirror, Open, Commit, storage
<1>6. ~UNCHANGED vars
  BY DEF vars, storage
<1> QED
  BY <1>1, <1>2, <1>3, <1>4, <1>5, <1>6 DEF Next, Reconciling, PageStep

\* A choice the copy kept through a reinstall stays while the app holds its
\* untouched first record (RetainedChoiceStands, settle of reinstall-reconcile.ts),
\* in every install whose pages saved no choice before its first committed record,
\* whatever was saved, lost or stopped in the installs before it.
THEOREM RetainedChoiceStandsHolds == Spec => RetainedChoiceStands
<1> DEFINE Stands ==
        /\ app = First /\ ~early
        /\ ~On(copy) /\ copy.atomic /\ Adoptable(copy)
        => ~On(copy')
<1>1. ASSUME IInv, [Next]_vars PROVE [Stands]_vars
  <2> SUFFICES ASSUME app = First, ~early, ~On(copy), copy.atomic, Adoptable(copy)
               PROVE  ~On(copy')
    OBVIOUS
  <2>1. Untouched(app) /\ OffChoice(copy)
    BY DEF Untouched, OffChoice, On
  <2>2. ~Replace /\ ~WriteCopy /\ \A s \in Pages : ~Write(s)
    BY <1>1, <2>1 DEF IInv, Guarded, ChoiceWaits, Replace, WriteCopy, Write
  <2>3. copy' = copy
    BY <1>1, <2>2, CopyWriters
  <2> QED
    BY <2>3
<1>2. Init => IInv
  BY InitInvariant DEF IInv, Guarded
<1>3. Spec => []IInv
  BY <1>2, StepInvariant, PTL DEF Spec
<1>4. Spec => [][Stands]_vars
  <2> HIDE DEF Stands
  <2>1. IInv /\ [Next]_vars => [Stands]_vars
    BY <1>1
  <2> QED
    BY <2>1, <1>3, PTL DEF Spec
<1> QED
  BY <1>4 DEF RetainedChoiceStands

=============================================================================
