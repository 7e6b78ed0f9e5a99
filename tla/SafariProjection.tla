-------------------------- MODULE SafariProjection --------------------------
(***************************************************************************)
(* The Apple app's saved record and the copy of it that Safari keeps.      *)
(* Deleting the app on a phone wipes the App Group, with the record and the*)
(* install id, and leaves the extension's browser storage: the copy, and   *)
(* the install ids last seen by the reconciler and by the entitlement pull.*)
(* The reinstalled app saves an untouched first record.  The background's  *)
(* reconciler, its entitlement pull, the extension's pages and the app then*)
(* run in any order, each with a context of its own that reads browser     *)
(* storage and writes it later.                                            *)
(*                                                                         *)
(* A record is told apart by its kind (committed or legacy), its rank and  *)
(* the choice it holds; accounts appear as the generation of the scope.    *)
(***************************************************************************)
EXTENDS Naturals

CONSTANTS
    Pages,           \* popups and settings pages of the extension
    None,
    Left2x,          \* the records a 2.x version may have saved on both sides
    MaxInstalls,     \* bound: installs of the app, the first one included
    MaxOrder,        \* the largest commit order a record can hold
    MaxGeneration,   \* bound: changes of account
    MaxFaults        \* bound: messages unanswered and backgrounds stopped

ASSUME BoundsAssumption ==
    /\ {MaxGeneration, MaxFaults} \subseteq Nat /\ {MaxInstalls, MaxOrder} \subseteq Nat \ {0}

VARIABLES
    install,    \* the number of installs so far; the install id of the newest
    published,  \* whether the app has published its install id
    app,        \* the record in the App Group
    early,      \* history: a page saved a choice while this install had no committed record
    copy,       \* the record in browser storage
    copyId,     \* still:settingsInstallGeneration, the install the copy belongs to; 0: unknown
    pullId,     \* still:installGeneration, the install the entitlement pull saw; 0: unknown
    recon,      \* the background's reconcile
    confirmed,  \* the id this background has recorded the copy against; 0: none
    pull,       \* the background's entitlement pull
    seed,       \* the seeding of copyId both share
    page,       \* the extension's open pages
    faults

app_vars == <<install, published, app, early>>
background == <<recon, confirmed, pull, seed>>
storage == <<copy, copyId, pullId>>
vars == <<app_vars, storage, background, page, faults>>

Record == [atomic : BOOLEAN, gen : 0..MaxGeneration, order : 0..MaxOrder, on : BOOLEAN]

Maybe == Record \union {None}

Id == 0..MaxInstalls

ASSUME RecordsAssumption == Left2x \subseteq Record /\ None \notin Record

First == [atomic |-> TRUE, gen |-> 0, order |-> 0, on |-> TRUE]

\* A read of the app's record before one is saved
Absent == [First EXCEPT !.atomic = FALSE]

On(r) == r # None => r.on

IsCommitted(r) == r # None /\ r.atomic

ReconIdle ==
    [at |-> "idle", app |-> None, local |-> None, recorded |-> 0, id |-> 0,
     target |-> None, follow |-> FALSE]

PageClosed ==
    [at |-> "closed", shown |-> None, v3 |-> FALSE, held |-> FALSE, record |-> None]

SeedIdle == [at |-> "idle", id |-> 0]

PullIdle == [at |-> "idle", id |-> 0]

\* The variables stay well typed.
TypeOK ==
    /\ install \in 1..MaxInstalls /\ published \in BOOLEAN /\ early \in BOOLEAN
    /\ app \in Maybe /\ copy \in Maybe
    /\ {copyId, pullId, confirmed} \subseteq Id
    /\ recon \in [at : {"idle", "seed", "app", "local", "recorded", "ask", "adopt", "reread",
                        "replace", "settle", "pull", "compare", "mirror", "write", "push"},
                  app : Maybe, local : Maybe, recorded : Id, id : Id, target : Maybe,
                  follow : BOOLEAN]
    /\ pull \in [at : {"idle", "seed", "record"}, id : Id]
    /\ seed \in [at : {"idle", "read", "check", "write"}, id : Id]
    /\ page \in [Pages -> [at : {"closed", "open", "mirror", "write"}, shown : Maybe,
                           v3 : BOOLEAN, held : BOOLEAN, record : Maybe]]
    /\ faults \in 0..MaxFaults

\* A new phone, or one whose app and extension are updated from 2.x
Init ==
    /\ install = 1 /\ published = FALSE /\ early = FALSE
    /\ app \in Left2x \union {None} /\ copy = app
    /\ copyId = 0 /\ pullId = 0
    /\ recon = ReconIdle /\ confirmed = 0 /\ pull = PullIdle /\ seed = SeedIdle
    /\ page = [s \in Pages |-> PageClosed]
    /\ faults = 0

-----------------------------------------------------------------------------
(* Order of records                                                         *)

Outranks(a, b) ==
    \/ b = None
    \/ a.atomic /\ ~b.atomic
    \/ /\ a.atomic = b.atomic
       /\ a.gen > b.gen \/ (a.gen = b.gen /\ a.order > b.order)

\* What is stored gives way to a mirrored record that is not older.
Yields(stored, r) == stored # None => ~Outranks(stored, r)

\* A committed record that nothing but its choices may tell from a first record
UntouchedFirst(r) == r.atomic /\ r.gen = 0 /\ r.order = 0

\* Seeded fault: what a person chose is not compared.
AnyFirstChoices(a, b) == TRUE

SameFirstChoices(a, b) == a.on = b.on

-----------------------------------------------------------------------------
(* The app                                                                  *)

Converted(r) == [First EXCEPT !.on = r.on]

\* Initialization in the web view saves a first record or converts a legacy one.
Initialize ==
    /\ ~IsCommitted(app)
    /\ app' = IF app = None THEN First ELSE Converted(app)
    /\ UNCHANGED <<install, published, early, storage, background, page, faults>>

Publish ==
    /\ ~published
    /\ published' = TRUE
    /\ UNCHANGED <<install, app, early, storage, background, page, faults>>

\* A switch is turned in the app, or by an acknowledgement of the account's settings.
AppCommit ==
    /\ IsCommitted(app) /\ app.order < MaxOrder
    /\ app' = [app EXCEPT !.order = @ + 1, !.on = ~@]
    /\ UNCHANGED <<install, published, early, storage, background, page, faults>>

EnterScope ==
    /\ IsCommitted(app) /\ app.order < MaxOrder /\ app.gen < MaxGeneration
    /\ app' = [app EXCEPT !.order = @ + 1, !.gen = @ + 1]
    /\ UNCHANGED <<install, published, early, storage, background, page, faults>>

\* What the app's record becomes when one switch is set.  A legacy record is stamped
\* with the clock, which any other device may have outrun.
Saved(r, on) ==
    LET next == {n \in 1..MaxOrder : r = None \/ n > r.order}
    IN CASE On(r) = on -> {r}
         [] r = None -> {[Absent EXCEPT !.order = n, !.on = on] : n \in next}
         [] IsCommitted(r) /\ On(r) # on ->
                {[r EXCEPT !.order = n, !.on = on] : n \in {r.order + 1} \intersect next}
         [] OTHER -> {[r EXCEPT !.order = n, !.on = on] : n \in next}

\* Seeded fault: the order of an adopted record is not looked at.
AlwaysAdoptable(r) == TRUE

Adoptable(r) == r.order < MaxOrder

\* The app's answer to an offered copy: what it did, and its record afterwards
Adoption(r, offered) ==
    LET whole == IF offered.atomic THEN offered ELSE Converted(offered)
    IN CASE r # First -> [status |-> "kept", record |-> r]
         [] r = First /\ offered = First -> [status |-> "kept", record |-> r]
         [] r = First /\ offered # First /\ ~Adoptable(whole) ->
                [status |-> "refused", record |-> r]
         [] OTHER -> [status |-> "adopted", record |-> [whole EXCEPT !.order = @ + 1]]

\* A legacy record pushed to the app
Pushed(r, legacy) ==
    IF Outranks(legacy, IF r = None THEN Absent ELSE r) THEN legacy ELSE r

\* Deleting the app ends the extension's background and pages with it.  The install
\* id of a copy must have been read once: that no id was ever recorded is a known gap.
Reinstall ==
    /\ install < MaxInstalls
    /\ copy = None \/ copyId # 0 \/ pullId # 0
    /\ install' = install + 1 /\ published' = FALSE /\ app' = None /\ early' = FALSE
    /\ recon' = ReconIdle /\ confirmed' = 0 /\ pull' = PullIdle /\ seed' = SeedIdle
    /\ page' = [s \in Pages |-> PageClosed]
    /\ UNCHANGED <<storage, faults>>

-----------------------------------------------------------------------------
(* The background                                                           *)

Fault(lost) == (lost => faults < MaxFaults) /\ faults' = IF lost THEN faults + 1 ELSE faults

InstallId == IF published THEN install ELSE 0

\* A page's nudge, or the background's start, runs a reconcile and an entitlement pull.
Nudge ==
    /\ recon.at = "idle"
    /\ recon' = [ReconIdle EXCEPT !.at = "seed"]
    /\ UNCHANGED <<app_vars, storage, confirmed, pull, seed, page, faults>>

\* The background is stopped; what it kept in memory is gone.
Stop ==
    /\ Fault(TRUE)
    /\ recon' = ReconIdle /\ confirmed' = 0 /\ pull' = PullIdle /\ seed' = SeedIdle
    /\ UNCHANGED <<app_vars, storage, page>>

\* Everyone who waits for the seeding goes on when it ends.
Seeded ==
    /\ seed' = SeedIdle
    /\ recon' = IF recon.at = "seed" THEN [recon EXCEPT !.at = "app"] ELSE recon
    /\ pull' = IF pull.at = "seed" THEN [pull EXCEPT !.at = "record"] ELSE pull

SeedRead ==
    /\ seed.at = "idle" /\ (recon.at = "seed" \/ pull.at = "seed")
    /\ IF copyId # 0 THEN Seeded
       ELSE seed' = [SeedIdle EXCEPT !.at = "read"] /\ UNCHANGED <<recon, pull>>
    /\ UNCHANGED <<app_vars, storage, confirmed, page, faults>>

SeedReadPull ==
    /\ seed.at = "read"
    /\ IF pullId = 0 THEN Seeded
       ELSE seed' = [at |-> "check", id |-> pullId] /\ UNCHANGED <<recon, pull>>
    /\ UNCHANGED <<app_vars, storage, confirmed, page, faults>>

SeedCheck ==
    /\ seed.at = "check"
    /\ IF copyId # 0 THEN Seeded
       ELSE seed' = [seed EXCEPT !.at = "write"] /\ UNCHANGED <<recon, pull>>
    /\ UNCHANGED <<app_vars, storage, confirmed, page, faults>>

SeedWrite ==
    /\ seed.at = "write"
    /\ copyId' = seed.id
    /\ Seeded
    /\ UNCHANGED <<app_vars, copy, pullId, confirmed, page, faults>>

\* Seeded fault: the new id is recorded without the seeding.
AskedUnseeded(lost) ==
    IF lost \/ InstallId \in {0, pullId} THEN PullIdle ELSE [at |-> "record", id |-> InstallId]

\* What the pull does next with the app's install id
Asked(lost) ==
    IF lost \/ InstallId \in {0, pullId} THEN PullIdle ELSE [at |-> "seed", id |-> InstallId]

PullAsk(lost) ==
    /\ pull.at = "idle"
    /\ Fault(lost)
    /\ pull' = Asked(lost)
    /\ UNCHANGED <<app_vars, storage, recon, confirmed, seed, page>>

\* The entitlement of the previous install has been purged.
PullRecord ==
    /\ pull.at = "record"
    /\ pullId' = pull.id
    /\ pull' = PullIdle
    /\ UNCHANGED <<app_vars, copy, copyId, recon, confirmed, seed, page, faults>>

PullFromApp(lost) ==
    /\ recon.at \in {"app", "pull"}
    /\ Fault(lost)
    /\ recon' = [recon EXCEPT !.at = IF @ = "app" THEN "local" ELSE "compare",
                              !.app = IF lost THEN None ELSE app]
    /\ UNCHANGED <<app_vars, storage, confirmed, pull, seed, page>>

ReadLocal ==
    /\ recon.at = "local"
    /\ recon' = [recon EXCEPT !.at = "recorded", !.local = copy]
    /\ UNCHANGED <<app_vars, storage, confirmed, pull, seed, page, faults>>

Settling(r, follow) == [ReconIdle EXCEPT !.at = "settle", !.id = r.id, !.follow = follow]

Replacing(r, record) ==
    [ReconIdle EXCEPT !.at = "reread", !.id = r.id, !.local = r.local, !.target = record]

Following == [ReconIdle EXCEPT !.at = "pull"]

\* The decision on what was read, once the install id is known or known not to be
Decision(r) ==
    LET changed == r.id # 0 /\ r.recorded # 0 /\ r.recorded # r.id
        same == r.local = r.app
    IN CASE r.app = None -> Following
         [] r.app # None /\ ~r.app.atomic -> Settling(r, TRUE)
         [] OTHER ->
            IF UntouchedFirst(r.app) /\ r.local # None /\ ~same
            THEN IF UntouchedFirst(r.local) /\ SameFirstChoices(r.local, r.app)
                 THEN Replacing(r, r.app) ELSE [r EXCEPT !.at = "adopt", !.app = None]
            ELSE IF changed /\ r.local # None /\ ~same THEN Replacing(r, r.app)
            ELSE Settling(r, TRUE)

ReadRecorded ==
    /\ recon.at = "recorded"
    /\ LET read == [recon EXCEPT !.recorded = copyId, !.id = copyId]
       IN recon' = IF copyId # 0 /\ copyId = confirmed THEN Decision(read)
                   ELSE [read EXCEPT !.at = "ask", !.id = 0]
    /\ UNCHANGED <<app_vars, storage, confirmed, pull, seed, page, faults>>

AskInstallId(lost) ==
    /\ recon.at = "ask"
    /\ Fault(lost)
    /\ recon' = Decision([recon EXCEPT !.id = IF lost THEN 0 ELSE InstallId])
    /\ UNCHANGED <<app_vars, storage, confirmed, pull, seed, page>>

\* The copy is offered; the app decides under its lock.  The offer or the answer may be lost.
Adopt(lost) ==
    /\ recon.at = "adopt"
    /\ Fault(lost)
    /\ LET adoption == Adoption(app, recon.local)
           changed == recon.id # 0 /\ recon.recorded # 0 /\ recon.recorded # recon.id
           status == adoption.status
       IN /\ app' \in {adoption.record} \union (IF lost THEN {app} ELSE {})
          /\ recon' =
                CASE lost \/ (status = "refused" /\ ~changed) -> ReconIdle
                  [] ~lost /\ (status = "adopted" \/ changed) ->
                        Replacing(recon, adoption.record)
                  [] OTHER -> Settling(recon, TRUE)
    /\ UNCHANGED <<install, published, early, storage, confirmed, pull, seed, page>>

\* The copy is read again right before it is replaced.
Reread ==
    /\ recon.at = "reread"
    /\ recon' = CASE copy = recon.target -> Settling(recon, FALSE)
                  [] copy # recon.target /\ copy = recon.local -> [recon EXCEPT !.at = "replace"]
                  [] OTHER -> ReconIdle
    /\ UNCHANGED <<app_vars, storage, confirmed, pull, seed, page, faults>>

Replace ==
    /\ recon.at = "replace"
    /\ copy' = recon.target
    /\ recon' = Settling(recon, FALSE)
    /\ UNCHANGED <<app_vars, copyId, pullId, confirmed, pull, seed, page, faults>>

Settle ==
    /\ recon.at = "settle"
    /\ copyId' = IF recon.id # 0 THEN recon.id ELSE copyId
    /\ confirmed' = IF recon.id # 0 THEN recon.id ELSE confirmed
    /\ recon' = IF recon.follow THEN Following ELSE ReconIdle
    /\ UNCHANGED <<app_vars, copy, pullId, pull, seed, page, faults>>

\* The ordinary reconcile: the higher record of the two, one way or the other
Compare ==
    /\ recon.at = "compare"
    /\ recon' = CASE recon.app # None /\ Outranks(recon.app, copy) ->
                        [recon EXCEPT !.at = "mirror"]
                  [] copy # None /\ ~copy.atomic /\ Outranks(copy, recon.app) ->
                        [ReconIdle EXCEPT !.at = "push", !.local = copy]
                  [] OTHER -> ReconIdle
    /\ UNCHANGED <<app_vars, storage, confirmed, pull, seed, page, faults>>

MirrorApp ==
    /\ recon.at = "mirror"
    /\ recon' = IF Yields(copy, recon.app) THEN [recon EXCEPT !.at = "write"] ELSE ReconIdle
    /\ UNCHANGED <<app_vars, storage, confirmed, pull, seed, page, faults>>

WriteCopy ==
    /\ recon.at = "write"
    /\ copy' = recon.app
    /\ recon' = ReconIdle
    /\ UNCHANGED <<app_vars, copyId, pullId, confirmed, pull, seed, page, faults>>

Push(lost) ==
    /\ recon.at = "push"
    /\ Fault(lost)
    /\ app' = IF lost THEN app ELSE Pushed(app, recon.local)
    /\ recon' = ReconIdle
    /\ UNCHANGED <<install, published, early, storage, confirmed, pull, seed, page>>

-----------------------------------------------------------------------------
(* Pages of the extension                                                   *)

\* A page reads the app's record, or holds what browser storage has when it cannot.
Open(s, lost) ==
    /\ page[s].at = "closed"
    /\ Fault(lost)
    /\ LET read == IF lost THEN copy ELSE app
       IN page' = [page EXCEPT ![s] =
            [at |-> "open", shown |-> read, v3 |-> IsCommitted(read),
             held |-> lost /\ IsCommitted(read), record |-> None]]
    /\ UNCHANGED <<app_vars, storage, background>>

Close(s) ==
    /\ page[s].at # "closed"
    /\ page' = [page EXCEPT ![s] = PageClosed]
    /\ UNCHANGED <<app_vars, storage, background, faults>>

\* A read of the app's record while the page is open
Refresh(s) ==
    /\ page[s].at = "open"
    /\ app # None /\ Yields(page[s].shown, app)
    /\ page' = [page EXCEPT ![s].shown = app, ![s].held = FALSE]
    /\ UNCHANGED <<app_vars, storage, background, faults>>

\* A switch is turned: the choice is saved in the app, whose answer may be lost.
\* The newer screen does not save while it holds a copy, the older one does.
Commit(s, lost) ==
    /\ page[s].at = "open"
    /\ ~page[s].held
    /\ Fault(lost)
    /\ early' = (early \/ ~IsCommitted(app))
    /\ \E r \in Saved(app, ~On(page[s].shown)) :
        /\ app' = r
        /\ page' = [page EXCEPT ![s] =
             IF lost THEN [page[s] EXCEPT !.held = @ \/ page[s].v3]
             ELSE [page[s] EXCEPT !.at = "mirror", !.record = IF r = None THEN Absent ELSE r]]
    /\ UNCHANGED <<install, published, storage, background>>

\* The page shows the answer to its choice unless it has accepted a later record.
Answered(p) ==
    IF IsCommitted(p.shown) /\ p.record.atomic /\ Outranks(p.shown, p.record)
    THEN [p EXCEPT !.at = "open", !.record = None]
    ELSE [p EXCEPT !.at = "open", !.record = None, !.shown = p.record, !.held = FALSE]

Mirror(s) ==
    /\ page[s].at = "mirror"
    /\ page' = [page EXCEPT ![s] =
                    IF Yields(copy, @.record) THEN [@ EXCEPT !.at = "write"] ELSE Answered(@)]
    /\ UNCHANGED <<app_vars, storage, background, faults>>

Write(s) ==
    /\ page[s].at = "write"
    /\ copy' = page[s].record
    /\ page' = [page EXCEPT ![s] = Answered(@)]
    /\ UNCHANGED <<app_vars, copyId, pullId, background, faults>>

-----------------------------------------------------------------------------

AppStep == Initialize \/ Publish \/ AppCommit \/ EnterScope \/ Reinstall

Seeding == SeedRead \/ SeedReadPull \/ SeedCheck \/ SeedWrite

Pulling == PullRecord \/ \E lost \in BOOLEAN : PullAsk(lost)

Reconciling ==
    \/ ReadLocal \/ ReadRecorded \/ Reread \/ Replace \/ Settle
    \/ Compare \/ MirrorApp \/ WriteCopy
    \/ \E lost \in BOOLEAN : PullFromApp(lost) \/ AskInstallId(lost) \/ Adopt(lost) \/ Push(lost)

PageStep(s) ==
    \/ Close(s) \/ Refresh(s) \/ Mirror(s) \/ Write(s)
    \/ \E lost \in BOOLEAN : Open(s, lost) \/ Commit(s, lost)

Next ==
    \/ AppStep \/ Nudge \/ Stop \/ Seeding \/ Pulling \/ Reconciling
    \/ \E s \in Pages : PageStep(s)

Spec == Init /\ [][Next]_vars

\* A visible page nudges again every fifteen seconds, and a running background goes on.
FairSpec ==
    /\ Spec
    /\ WF_vars(Nudge) /\ WF_vars(Seeding) /\ WF_vars(Pulling) /\ WF_vars(Reconciling)

-----------------------------------------------------------------------------
(* What a reinstall must keep                                               *)

\* While the app's record is its untouched first record, a switch that is Off in a
\* committed copy stays Off there: it is offered to the app and never overwritten by
\* the first record.  Two cases are left out: copies of 2.x, and installs in which a
\* page saved a choice before the app had a committed record.
RetainedChoiceStands ==
    [][/\ app = First /\ ~early
       /\ ~On(copy) /\ copy.atomic /\ Adoptable(copy)
       => ~On(copy')]_vars

Follows == IsCommitted(app) /\ published => copy = app

\* When no one changes the app's record any more, Safari's copy ends up as that record,
\* whatever rank the copy of an earlier install had, provided that in the last install
\* no page saved a choice before the app had a committed record.
CopyFollowsApp == <>[]~early => <>[]Follows

=============================================================================
