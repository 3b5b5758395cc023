---------------------------- MODULE MemoryReads ----------------------------
(***************************************************************************)
(* Paged reads of persona memory (src/src/memory_wire.rs and their calls   *)
(* in src/src/control.rs).  A read takes a lease on the daemon's lifetime, *)
(* runs as a task of its own on blocking workers, and hands its page over  *)
(* at a last fence; the caller may go away at any time.  Selecting an      *)
(* organization and logging out are transitions, which no read survives.   *)
(* A document is read page by page, at one revision.                       *)
(***************************************************************************)
EXTENDS Integers, FiniteSets

CONSTANTS Readers,       \* admission permits (64 in the code)
          Scopes,        \* persona chats
          Owners,        \* accounts that may be signed in
          MaxContexts,   \* chats whose pages are kept (64 in the code)
          LastPage,      \* pages of a document, from 0
          MemoryLimits   \* bounds on events

\* Disturbances: switches, changes of the document, failed transports, callers gone.
MemoryEvents == {"reads", "disturbances"}

ASSUME MemoryAssumption ==
    /\ IsFiniteSet(Readers)
    /\ MaxContexts \in Nat \ {0} /\ LastPage \in Nat
    /\ MemoryLimits \in [MemoryEvents -> Nat]

VARIABLES
    life,       \* ReadLifecycle: its generation, and transitions under way
    read,       \* what each admitted read is doing
    pageStore,  \* MemoryReadState
    switch,     \* the logout or selection under way
    signedIn,   \* the owner the authorization store is bound to, or nobody
    revision,   \* external: the document's revision at the backend
    given,      \* external: what each chat was given last
    memoryLeft  \* events that may still happen

memoryVars == <<life, read, pageStore, switch, signedIn, revision, given, memoryLeft>>

Nobody == "nobody"
Pages == 0..LastPage
Nothing == [rev |-> 0, next |-> 0, owner |-> Nobody, bound |-> Nobody]
NoRead == [at |-> "free"]

Answers == {"none", "page", "refused", "legacy"}    \* legacy: of the first wire form
Ticket == [epoch : Nat, serial : Nat, scope : Scopes, owner : Owners \cup {Nobody}]
Reading == [at : {"admitted", "dispose", "begin", "fetch", "verify", "finish", "confirm",
                  "ready", "owner", "release", "abort"},
            lease : Nat, gone : BOOLEAN, page : Pages, rev : Nat,
            answer : Answers, ticket : Ticket]
Document == [scope : Scopes, rev : Nat, next : Nat]
Flight == [scope : Scopes, serial : Nat, done : BOOLEAN]

MemoryTypeOK ==
    /\ life \in [gen : Nat, transitions : Nat]
    /\ \A r \in Readers : read[r] = NoRead \/ read[r] \in Reading
    /\ pageStore.epoch \in Nat /\ pageStore.gen \in Nat /\ pageStore.serial \in Nat
    /\ pageStore.owner \in Owners \cup {Nobody}
    /\ pageStore.contexts \subseteq Scopes /\ Cardinality(pageStore.contexts) <= MaxContexts
    /\ pageStore.documents \subseteq Document /\ pageStore.flights \subseteq Flight
    /\ \A x, y \in pageStore.documents : x.scope = y.scope => x = y
    /\ \A x, y \in pageStore.flights : x.scope = y.scope => x = y
    /\ switch \in {"none", "begun", "disposing", "disposed", "done"}
    /\ signedIn \in Owners \cup {Nobody}
    /\ revision \in Nat \ {0}
    /\ given \in [Scopes -> [rev : Nat, next : Nat, owner : Owners \cup {Nobody},
                             bound : Owners \cup {Nobody}]]
    /\ memoryLeft \in [MemoryEvents -> Nat]

EmptyStore == [epoch |-> 0, gen |-> 0, serial |-> 0, owner |-> Nobody,
               contexts |-> {}, documents |-> {}, flights |-> {}]

\* A chat may have been given a first page already.
MemoryInit ==
    /\ life = [gen |-> 0, transitions |-> 0]
    /\ read = [r \in Readers |-> NoRead]
    /\ switch = "none" /\ signedIn \in Owners
    /\ revision = 1
    /\ \/ pageStore = EmptyStore /\ given = [s \in Scopes |-> Nothing]
       \/ \E s \in Scopes :
            /\ pageStore = [EmptyStore EXCEPT !.owner = signedIn, !.contexts = {s},
                                !.documents = {[scope |-> s, rev |-> 1, next |-> 1]}]
            /\ given = [t \in Scopes |-> IF t # s THEN Nothing ELSE
                          [rev |-> 1, next |-> 1, owner |-> signedIn, bound |-> signedIn]]
    /\ memoryLeft = MemoryLimits

Happens(event) ==
    memoryLeft[event] > 0 /\ memoryLeft' = [memoryLeft EXCEPT ![event] = @ - 1]

\* transition(), and its end when the guard is dropped.
Entered == [gen |-> life.gen + 1, transitions |-> life.transitions + 1]
Left == [gen |-> life.gen + 1, transitions |-> life.transitions - 1]

\* ReadLease::current.
Current(entry) == /\ life.transitions = 0 /\ entry.lease = life.gen /\ ~entry.gone

Goes(r, at) == read' = [read EXCEPT ![r].at = at]
Ends(r) == read' = [read EXCEPT ![r] = NoRead]
-----------------------------------------------------------------------------
Invalidated(store) ==
    [store EXCEPT !.epoch = @ + 1, !.owner = Nobody,
                  !.contexts = {}, !.documents = {}, !.flights = {}]

Evicted(store, scope) ==
    [store EXCEPT !.contexts = @ \ {scope},
                  !.documents = {d \in @ : d.scope # scope},
                  !.flights = {f \in @ : f.scope # scope}]

\* Mutant of Matches: a read is known by its chat and document only.
MatchesKey(ticket) ==
    /\ pageStore.epoch = ticket.epoch /\ pageStore.owner = ticket.owner
    /\ \E f \in pageStore.flights : f.scope = ticket.scope

Matches(ticket) ==
    /\ pageStore.epoch = ticket.epoch /\ pageStore.owner = ticket.owner
    /\ \E f \in pageStore.flights : f.scope = ticket.scope /\ f.serial = ticket.serial

Grounded(store, scope) == [store EXCEPT !.flights = {f \in @ : f.scope # scope}]
Discarded(store, scope) == [store EXCEPT !.documents = {d \in @ : d.scope # scope}]

RemoveEmpty(store, scope) ==
    IF (\E f \in store.flights : f.scope = scope) \/ (\E d \in store.documents : d.scope = scope)
    THEN store ELSE [store EXCEPT !.contexts = @ \ {scope}]

Released(ticket) ==
    IF Matches(ticket) THEN RemoveEmpty(Grounded(pageStore, ticket.scope), ticket.scope)
    ELSE pageStore

Aborted(ticket) ==
    IF Matches(ticket)
    THEN RemoveEmpty(Discarded(Grounded(pageStore, ticket.scope), ticket.scope), ticket.scope)
    ELSE pageStore
-----------------------------------------------------------------------------
\* A call of personas.memory.read: from the start, or with the cursor it was given.
Capture(r, scope, page) ==
    /\ read[r] = NoRead /\ life.transitions = 0 /\ Happens("reads")
    /\ page \in {0, given[scope].next}
    /\ read' = [read EXCEPT ![r] =
                  [at |-> "admitted", lease |-> life.gen, gone |-> FALSE, page |-> page,
                   rev |-> given[scope].rev, answer |-> "none",
                   ticket |-> [epoch |-> 0, serial |-> 0, scope |-> scope, owner |-> Nobody]]]
    /\ UNCHANGED <<life, pageStore, switch, signedIn, revision, given>>

\* The caller goes away, and the lease with it; the task, once spawned, goes on.
CallerLeaves(r) ==
    /\ read[r] # NoRead /\ ~read[r].gone /\ read[r].at # "dispose"
    /\ Happens("disturbances")
    /\ IF read[r].at = "admitted" THEN Ends(r)
       ELSE read' = [read EXCEPT ![r].gone = TRUE]
    /\ UNCHANGED <<life, pageStore, switch, signedIn, revision, given>>

\* owner_bound_credential; without one, all retained pages are disposed of.
BindOwner(r) ==
    /\ read[r].at = "admitted"
    /\ IF signedIn = Nobody
       THEN life' = Entered /\ Goes(r, "dispose")
       ELSE /\ read' = [read EXCEPT ![r].at = "begin", ![r].ticket.owner = signedIn]
            /\ UNCHANGED life
    /\ UNCHANGED <<pageStore, switch, signedIn, revision, given, memoryLeft>>

Dispose(r) ==
    /\ read[r].at = "dispose"
    /\ pageStore' = Invalidated(pageStore) /\ life' = Left /\ Ends(r)
    /\ UNCHANGED <<switch, signedIn, revision, given, memoryLeft>>

\* What begin_leased starts from: another generation or owner disposes of the pages,
\* and chats left alone for fifteen minutes go.
Prepared(entry) ==
    LET fresh == IF pageStore.gen # entry.lease THEN Invalidated(pageStore) ELSE pageStore
        owned == IF fresh.owner # entry.ticket.owner THEN Invalidated(fresh) ELSE fresh
    IN {[owned EXCEPT !.gen = entry.lease, !.owner = entry.ticket.owner,
                      !.contexts = @ \ old,
                      !.documents = {d \in @ : d.scope \notin old},
                      !.flights = {f \in @ : f.scope \notin old}] : old \in SUBSET owned.contexts}

\* Mutant of Room: an explicit restart leaves the read it replaces pending.
RoomUngrounded(store, scope) ==
    LET restarted == Discarded(store, scope) IN
    IF scope \in restarted.contexts \/ Cardinality(restarted.contexts) < MaxContexts
    THEN {restarted}
    ELSE {Evicted(restarted, other) : other \in restarted.contexts}

\* A first page forgets the old document and may evict another chat for its own.
Room(store, scope) ==
    LET restarted == Discarded(Grounded(store, scope), scope) IN
    IF scope \in restarted.contexts \/ Cardinality(restarted.contexts) < MaxContexts
    THEN {restarted}
    ELSE {Evicted(restarted, other) : other \in restarted.contexts}

Continues(store, entry) ==
    /\ \A f \in store.flights : f.scope # entry.ticket.scope
    /\ \E d \in store.documents : /\ d.scope = entry.ticket.scope
                                  /\ d.rev = entry.rev /\ d.next = entry.page

Begun(store, entry) ==
    LET scope == entry.ticket.scope IN
    [store EXCEPT !.contexts = @ \cup {scope}, !.serial = @ + 1,
                  !.flights = @ \cup {[scope |-> scope, serial |-> store.serial + 1,
                                       done |-> FALSE]}]

Begin(r) ==
    LET entry == read[r] IN
    /\ entry.at = "begin"
    /\ \/ ~Current(entry) /\ Ends(r) /\ UNCHANGED pageStore
       \/ /\ Current(entry)
          /\ \E store \in Prepared(entry) :
               \/ /\ entry.page > 0 /\ ~Continues(store, entry)
                  /\ Ends(r) /\ pageStore' = store
               \/ \E room \in IF entry.page = 0 THEN Room(store, entry.ticket.scope)
                              ELSE {store} :
                    /\ (entry.page = 0 \/ Continues(store, entry))
                    /\ pageStore' = Begun(room, entry)
                    /\ read' = [read EXCEPT ![r].at = "fetch",
                                            ![r].ticket.epoch = room.epoch,
                                            ![r].ticket.serial = room.serial + 1]
    /\ UNCHANGED <<life, switch, signedIn, revision, given, memoryLeft>>

\* The backend answers with a page of its revision, an error, or in the older form; or
\* the transport fails: the cursor is kept if the lease still stands.
Fetch(r) ==
    LET entry == read[r] IN
    /\ entry.at = "fetch"
    /\ \/ ~Current(entry) /\ Goes(r, "abort") /\ UNCHANGED memoryLeft
       \/ /\ Current(entry) /\ UNCHANGED memoryLeft
          /\ \E answer \in Answers \ {"none"} :
               read' = [read EXCEPT ![r].at = "verify", ![r].answer = answer,
                                    ![r].rev = IF answer = "page" THEN revision ELSE @]
       \/ Current(entry) /\ Happens("disturbances") /\ Goes(r, "release")
    /\ UNCHANGED <<life, pageStore, switch, signedIn, revision, given>>

\* verify_bound_owner, before the page is kept and once more after.
VerifyOwner(r) ==
    LET entry == read[r]
        bound == signedIn = entry.ticket.owner
        legacy == entry.answer = "legacy"
    IN /\ \/ /\ entry.at = "verify"
             /\ Goes(r, CASE ~Current(entry) -> "abort" [] ~bound -> "owner"
                          [] legacy -> "confirm" [] OTHER -> "finish")
          \/ /\ entry.at = "confirm"
             /\ Goes(r, CASE bound -> "ready" [] legacy -> "abort" [] OTHER -> "owner")
       /\ UNCHANGED <<life, pageStore, switch, signedIn, revision, given, memoryLeft>>

\* invalidate_owner on a worker; the task's own error then aborts the read.
InvalidateOwner(r) ==
    LET ticket == read[r].ticket IN
    /\ read[r].at = "owner"
    /\ pageStore' = IF pageStore.epoch = ticket.epoch /\ pageStore.owner = ticket.owner
                    THEN Invalidated(pageStore) ELSE pageStore
    /\ Goes(r, "abort")
    /\ UNCHANGED <<life, switch, signedIn, revision, given, memoryLeft>>

\* Mutant of Follows: the revision is not compared.
FollowsAnyRevision(entry) ==
    \/ entry.page = 0
    \/ \E d \in pageStore.documents : /\ d.scope = entry.ticket.scope
                                      /\ d.next = entry.page

\* accept: the page goes on where the document of the same revision ends.
Follows(entry) ==
    \/ entry.page = 0
    \/ \E d \in pageStore.documents : /\ d.scope = entry.ticket.scope
                                      /\ d.next = entry.page /\ d.rev = entry.rev

\* finish: the page is kept with its cursor; a last page ends the document, and an
\* error of the backend leaves it as it was.
Finish(r) ==
    LET entry == read[r]
        scope == entry.ticket.scope
        rest == {d \in pageStore.documents : d.scope # scope}
        grown == IF entry.page = LastPage THEN rest
                 ELSE rest \cup {[scope |-> scope, rev |-> entry.rev, next |-> entry.page + 1]}
        done == {[f EXCEPT !.done = @ \/ f.scope = scope] : f \in pageStore.flights}
    IN /\ entry.at = "finish"
       /\ \/ /\ Current(entry) /\ Matches(entry.ticket)
             /\ (entry.answer = "refused" \/ Follows(entry))
             /\ pageStore' = [pageStore EXCEPT !.flights = done,
                                 !.documents = IF entry.answer = "refused" THEN @ ELSE grown]
             /\ Goes(r, "confirm")
          \/ /\ Current(entry) /\ entry.answer = "page" /\ ~Follows(entry)
             /\ pageStore' = Aborted(entry.ticket) /\ Goes(r, "abort")
          \/ /\ ~Current(entry) \/ ~Matches(entry.ticket)
             /\ Goes(r, "abort") /\ UNCHANGED pageStore
       /\ UNCHANGED <<life, switch, signedIn, revision, given, memoryLeft>>

\* accept of the delivery: the ticket is used up and the page released in one step.
Accept(r) ==
    LET entry == read[r]
        scope == entry.ticket.scope
        published == \E f \in pageStore.flights : f.scope = scope /\ (f.done \/ entry.answer = "legacy")
    IN /\ entry.at = "ready"
       /\ IF Current(entry) /\ Matches(entry.ticket) /\ published
          THEN /\ pageStore' = Released(entry.ticket)
               /\ given' = [given EXCEPT
                     ![scope].rev = IF entry.answer = "page" THEN entry.rev ELSE @,
                     ![scope].next = IF entry.answer = "page" THEN entry.page + 1 ELSE @,
                     ![scope].owner = entry.ticket.owner, ![scope].bound = signedIn]
               /\ Ends(r)
          ELSE Goes(r, "abort") /\ UNCHANGED <<pageStore, given>>
       /\ UNCHANGED <<life, switch, signedIn, revision, memoryLeft>>

Cleanup(r) ==
    LET entry == read[r] IN
    /\ entry.at \in {"release", "abort"}
    /\ pageStore' = IF entry.at = "release" /\ Current(entry)
                    THEN Released(entry.ticket) ELSE Aborted(entry.ticket)
    /\ Ends(r)
    /\ UNCHANGED <<life, switch, signedIn, revision, given, memoryLeft>>
-----------------------------------------------------------------------------
\* organizations.select or auth.logout; only a logout signs out.
SwitchBegins ==
    /\ switch = "none" /\ Happens("disturbances")
    /\ switch' = "begun" /\ life' = Entered
    /\ UNCHANGED <<read, pageStore, signedIn, revision, given>>

DisposeBegins ==
    /\ switch = "begun" /\ switch' = "disposing" /\ life' = Entered
    /\ UNCHANGED <<read, pageStore, signedIn, revision, given, memoryLeft>>

DisposeEnds ==
    /\ switch = "disposing" /\ switch' = "disposed" /\ life' = Left
    /\ pageStore' = Invalidated(pageStore)
    /\ UNCHANGED <<read, signedIn, revision, given, memoryLeft>>

SignOut ==
    /\ switch = "disposed" /\ switch' = "done" /\ signedIn' \in {signedIn, Nobody}
    /\ UNCHANGED <<life, read, pageStore, revision, given, memoryLeft>>

\* ... and may fail, or be cancelled, before that.
SwitchEnds ==
    /\ switch \in {"begun", "disposed", "done"} /\ switch' = "none" /\ life' = Left
    /\ UNCHANGED <<read, pageStore, signedIn, revision, given, memoryLeft>>

SignIn ==
    /\ signedIn = Nobody /\ switch = "none" /\ signedIn' \in Owners
    /\ UNCHANGED <<life, read, pageStore, switch, revision, given, memoryLeft>>

DocumentChanges ==
    /\ Happens("disturbances") /\ revision' = revision + 1
    /\ UNCHANGED <<life, read, pageStore, switch, signedIn, given>>
-----------------------------------------------------------------------------
ReadStep(r) == \/ BindOwner(r) \/ Dispose(r) \/ Begin(r) \/ Fetch(r) \/ VerifyOwner(r)
               \/ InvalidateOwner(r) \/ Finish(r) \/ Accept(r) \/ Cleanup(r)

MemoryNext ==
    \/ \E r \in Readers, s \in Scopes, p \in Pages : Capture(r, s, p)
    \/ \E r \in Readers : read[r] # NoRead /\ (ReadStep(r) \/ CallerLeaves(r))
    \/ SwitchBegins \/ DisposeBegins \/ DisposeEnds \/ SignOut \/ SwitchEnds \/ SignIn
    \/ DocumentChanges
-----------------------------------------------------------------------------
\* The read an entry of flights belongs to is still being handled.
Handled(f) ==
    \E r \in Readers :
        /\ read[r] # NoRead /\ read[r].at \notin {"admitted", "dispose", "begin"}
        /\ read[r].ticket.serial = f.serial /\ read[r].ticket.scope = f.scope
        /\ read[r].ticket.epoch = pageStore.epoch /\ read[r].ticket.owner = pageStore.owner

CursorsAgree ==
    /\ \A d \in pageStore.documents :
         \/ \E f \in pageStore.flights : f.scope = d.scope
         \/ pageStore.gen # life.gen
         \/ given[d.scope].rev = d.rev /\ given[d.scope].next = d.next
    /\ \A f \in pageStore.flights : Handled(f)
    /\ \A s \in Scopes : given[s].owner = given[s].bound

(***************************************************************************)
(* A chat is given the pages of a document in order and of one revision,   *)
(* under one owner, however its reads, restarts and switches interleave.   *)
(* "Late responses may never overwrite the restart": with no read of a     *)
(* document under way, its cursor is the one its chat was given.  A read   *)
(* under way always has its task ("the bounded task owns ... every worker  *)
(* result until exact cleanup finishes"), so no cursor stays blocked.  And *)
(* a page is handed over only while its owner is the one signed in.        *)
(***************************************************************************)
PagesInOrder ==
    [][/\ CursorsAgree'
       /\ \A s \in Scopes : given'[s].next \notin {1, given[s].next} =>
            given[s] = [given'[s] EXCEPT !.next = @ - 1]]_memoryVars
=============================================================================
