---------------------------- MODULE UpdateHistory ----------------------------
(***************************************************************************)
(* Dispatcher._handle_update and the history it feeds: an update goes      *)
(* through the handler groups, the handlers that returned are recorded in  *)
(* one batch under the key of the update, and handlers read, pop and clear *)
(* the history of a key while other updates are handled.                   *)
(*                                                                         *)
(* The store is a MemoryUpdateHistoryStore.  Records are made and stored   *)
(* in one stretch, so that a heap ordered by creation is a sequence, its   *)
(* least element the head.  An action is one stretch between awaits.  A    *)
(* Mutant is not part of the specification.                                *)
(***************************************************************************)
EXTENDS Naturals, Sequences, FiniteSetsExt

CONSTANTS
  Update,    \* of one type, each delivered once
  Key,       \* what extract_key() returns
  KeyOf,
  Recorder,  \* those with a handler that calls record() itself
  Handler,
  Groups,    \* dispatcher.groups: a sequence of sequences of handlers
  Ttl,
  MaxLen,    \* max_history_len
  MaxKeys,
  MaxTime,   \* bound on the clock
  Env        \* what may happen, a subset of Events

Events == {"listener",    \* a listener may consume an update
           "unrecorded",  \* is_recordable() may be false or raise
           "unmatched",   \* a handler may not match
           "continue",    \* a handler may raise ContinuePropagation
           "error",       \* or another exception
           "stop",        \* or StopPropagation, UnhandledUpdate
           "unstored",    \* record_many() may raise
           "read", "pop", "clear"}  \* get(), pop(), clear() may be called

Record == [update : Update, handler : Handler, at : 0..MaxTime,
           by : {"handler", "dispatcher"}]
Batch == UNION {[1..n -> Handler] : n \in 0..Len(Groups)}

ASSUME ConstantsAssumption ==
  /\ KeyOf \in [Update -> Key] /\ Recorder \subseteq Update
  /\ Groups \in Seq(Seq(Handler))
  /\ Ttl \in Nat \ {0} /\ MaxLen \in Nat \ {0} /\ MaxKeys \in Nat \ {0}
  /\ MaxTime \in Nat
  /\ Env \subseteq Events

VARIABLES
  now,
  store,     \* histories: its keys, least recently used first, when each
             \* expires and the records under it
  pc,        \* where each update is
  at,        \* the group and the handler in it the update has come to
  records,   \* the handlers to record
  recordable, \* records is not None
  returned,  \* the handlers that returned
  recorded,  \* the handlers recorded
  own,       \* the updates whose handler has called record()
  log,       \* what each key was given since it was last popped or cleared
  popped,    \* every record some pop() returned
  answer     \* the last get() or pop() and what it returned

updateVars == <<pc, at, records, recordable, returned>>
ghostVars == <<recorded, own, log, popped, answer>>
vars == <<now, store, updateVars, ghostVars>>

TypeOK ==
  /\ now \in 0..MaxTime
  /\ store \in [order : Seq(Key), expires : [Key -> Nat], heap : [Key -> Seq(Record)]]
  /\ pc \in [Update -> {"queued", "matching", "running", "recording", "done"}]
  /\ at \in [Update -> Nat \X Nat]
  /\ records \in [Update -> Batch] /\ recordable \in [Update -> BOOLEAN]
  /\ returned \in [Update -> Batch] /\ recorded \in [Update -> Batch]
  /\ log \in [Key -> Seq(Record)]
  /\ own \subseteq Recorder /\ popped \subseteq Record
  /\ answer \in [call : {"none", "get", "pop"}, records : Seq(Record)]

Init ==
  /\ now = 0
  /\ store = [order |-> <<>>, expires |-> [k \in Key |-> 0], heap |-> [k \in Key |-> <<>>]]
  /\ pc = [u \in Update |-> "queued"]
  /\ at = [u \in Update |-> <<1, 1>>]
  /\ records = [u \in Update |-> <<>>] /\ recordable = [u \in Update |-> FALSE]
  /\ returned = [u \in Update |-> <<>>] /\ recorded = [u \in Update |-> <<>>]
  /\ log = [k \in Key |-> <<>>]
  /\ own = {} /\ popped = {}
  /\ answer = [call |-> "none", records |-> <<>>]
-----------------------------------------------------------------------------
Elements(s) == {s[i] : i \in DOMAIN s}
IsSuffix(s, t) == Len(s) <= Len(t) /\ s = SubSeq(t, Len(t) - Len(s) + 1, Len(t))

\* External: cachetools.TTLCache, the keys of ks only, still in order of use.
Among(order, ks) == SelectSeq(order, LAMBDA k : k \in ks)

Without(st, k) ==
  [order   |-> Among(st.order, Key \ {k}),
   expires |-> [st.expires EXCEPT ![k] = 0],
   heap    |-> [st.heap EXCEPT ![k] = <<>>]]

Resident(st, k) == k \in Elements(st.order)

\* External: a key older than the ttl is not there any more.
Purged(st, t) ==
  LET alive == {k \in Key : Resident(st, k) /\ t < st.expires[k]}
  IN [order   |-> Among(st.order, alive),
      expires |-> [k \in Key |-> IF k \in alive THEN st.expires[k] ELSE 0],
      heap    |-> [k \in Key |-> IF k \in alive THEN st.heap[k] ELSE <<>>]]

\* External: a key read or written is the most recently used.
Touched(st, k) ==
  IF Resident(st, k)
  THEN [st EXCEPT !.order = Append(Among(@, Key \ {k}), k)]
  ELSE st

\* External: setdefault(key, []).  The time a key expires is set when it is
\* inserted, and a full cache gives up its least recently used key.
WithKey(st, k) ==
  IF Resident(st, k) THEN Touched(st, k)
  ELSE LET room == IF Len(st.order) >= MaxKeys THEN Without(st, Head(st.order)) ELSE st
       IN [room EXCEPT !.order = Append(@, k), !.expires[k] = now + Ttl]

IsExpired(r) == now >= r.at + Ttl

\* Expired records are popped off the head, up to the first that is fresh.
CleanUp(heap) ==
  LET fresh == {i \in DOMAIN heap : ~IsExpired(heap[i])}
  IN IF fresh = {} THEN <<>> ELSE SubSeq(heap, Min(fresh), Len(heap))

\* Mutant: the newest records are dropped.
OldestOf(heap) == SubSeq(heap, 1, IF Len(heap) > MaxLen THEN MaxLen ELSE Len(heap))

NewestOf(heap) == SubSeq(heap, IF Len(heap) > MaxLen THEN Len(heap) - MaxLen + 1 ELSE 1,
                         Len(heap))

DroppedIfEmpty(st, k) == IF st.heap[k] = <<>> THEN Without(st, k) ELSE st

\* MemoryUpdateHistoryStore._update()
Updated(k, batch) ==
  LET st == WithKey(Purged(store, now), k)
  IN DroppedIfEmpty([st EXCEPT !.heap[k] = NewestOf(CleanUp(@ \o batch))], k)

\* Mutant: what is there is returned as it is.
HeldAsStored(k) == store.heap[k]

\* What _get() returns and what it leaves.
Held(k) == CleanUp(Purged(store, now).heap[k])

Read(k) ==
  DroppedIfEmpty([Touched(Purged(store, now), k) EXCEPT !.heap[k] = CleanUp(@)], k)
-----------------------------------------------------------------------------
Goto(u, label) == pc' = [pc EXCEPT ![u] = label]

Tick ==
  /\ now < MaxTime
  /\ now' = now + 1
  /\ UNCHANGED <<store, updateVars, ghostVars>>

\* is_recordable(); one that raises leaves records at None as well.
IsRecordable == IF "unrecorded" \in Env THEN BOOLEAN ELSE {TRUE}

\* handle_listen(), then is_recordable().  StopPropagation of a resolved
\* listener ends the update.
Take(u) ==
  /\ pc[u] = "queued"
  /\ \/ "listener" \in Env /\ Goto(u, "done") /\ UNCHANGED recordable
     \/ /\ Goto(u, "matching")
        /\ \E b \in IsRecordable : recordable' = [recordable EXCEPT ![u] = b]
  /\ UNCHANGED <<now, store, at, records, returned, ghostVars>>

Group(u) == at[u][1]

\* A handler of the group matches; a check that raises is one that does not.
Match(u) ==
  /\ pc[u] = "matching" /\ Group(u) <= Len(Groups)
  /\ \E i \in at[u][2]..Len(Groups[Group(u)]) :
       /\ i = at[u][2] \/ "unmatched" \in Env
       /\ at' = [at EXCEPT ![u][2] = i]
  /\ Goto(u, "running")
  /\ UNCHANGED <<now, store, records, recordable, returned, ghostVars>>

\* None of the handlers left in the group matches.
NextGroup(u) ==
  /\ pc[u] = "matching" /\ Group(u) <= Len(Groups)
  /\ at[u][2] > Len(Groups[Group(u)]) \/ "unmatched" \in Env
  /\ at' = [at EXCEPT ![u] = <<Group(u) + 1, 1>>]
  /\ UNCHANGED <<now, store, pc, records, recordable, returned, ghostVars>>

Running(u) == Groups[at[u][1]][at[u][2]]

\* The handler returns, and is the last one of its group.
Return(u) ==
  /\ pc[u] = "running"
  /\ returned' = [returned EXCEPT ![u] = Append(@, Running(u))]
  /\ records' = IF recordable[u] THEN [records EXCEPT ![u] = Append(@, Running(u))] ELSE records
  /\ at' = [at EXCEPT ![u] = <<Group(u) + 1, 1>>]
  /\ Goto(u, "matching")
  /\ UNCHANGED <<now, store, recordable, ghostVars>>

\* Mutant: a handler that raises is recorded as well.
RaiseRecorded(u) ==
  /\ "error" \in Env /\ pc[u] = "running"
  /\ records' = IF recordable[u] THEN [records EXCEPT ![u] = Append(@, Running(u))] ELSE records
  /\ at' = [at EXCEPT ![u] = <<Group(u) + 1, 1>>]
  /\ Goto(u, "matching")
  /\ UNCHANGED <<now, store, recordable, returned, ghostVars>>

\* It raises, which the error handlers get, and ends its group.
Raise(u) ==
  /\ "error" \in Env /\ pc[u] = "running"
  /\ at' = [at EXCEPT ![u] = <<Group(u) + 1, 1>>]
  /\ Goto(u, "matching")
  /\ UNCHANGED <<now, store, records, recordable, returned, ghostVars>>

\* ContinuePropagation: on to the next handler of the group.
Continue(u) ==
  /\ "continue" \in Env /\ pc[u] = "running"
  /\ at' = [at EXCEPT ![u][2] = @ + 1]
  /\ Goto(u, "matching")
  /\ UNCHANGED <<now, store, records, recordable, returned, ghostVars>>

\* StopPropagation and UnhandledUpdate leave _handle_update.
Stop(u) ==
  /\ "stop" \in Env /\ pc[u] = "running"
  /\ Goto(u, "done")
  /\ UNCHANGED <<now, store, at, records, recordable, returned, ghostVars>>

EndOfGroups(u) ==
  /\ pc[u] = "matching" /\ Group(u) > Len(Groups)
  /\ Goto(u, IF records[u] = <<>> THEN "done" ELSE "recording")
  /\ UNCHANGED <<now, store, at, records, recordable, returned, ghostVars>>

\* record_many(): the key and the data are there, the records are made and
\* stored.
RecordMany(u) ==
  /\ pc[u] = "recording"
  /\ LET k == KeyOf[u]
         batch == [i \in DOMAIN records[u] |->
                     [update |-> u, handler |-> records[u][i], at |-> now,
                      by |-> "dispatcher"]]
     IN /\ store' = Updated(k, batch)
        /\ log' = [log EXCEPT ![k] = @ \o batch]
  /\ recorded' = [recorded EXCEPT ![u] = records[u]]
  /\ Goto(u, "done")
  /\ UNCHANGED <<now, at, records, recordable, returned, own, popped, answer>>

\* A handler calls record() for itself, as a rule without knowing whether the
\* dispatcher will: its record is there before the batch, and beside it.
RecordOwn(u) ==
  /\ u \in Recorder \ own /\ pc[u] = "running"
  /\ own' = own \cup {u}
  /\ \E b \in IsRecordable :
       LET k == KeyOf[u]
           one == <<[update |-> u, handler |-> Running(u), at |-> now, by |-> "handler"]>>
       IN IF b THEN store' = Updated(k, one) /\ log' = [log EXCEPT ![k] = @ \o one]
               ELSE UNCHANGED <<store, log>>
  /\ UNCHANGED <<now, updateVars, recorded, popped, answer>>

\* extract_key(), extract_data() or the store raises, which is logged.
RecordFails(u) ==
  /\ "unstored" \in Env /\ pc[u] = "recording"
  /\ Goto(u, "done")
  /\ UNCHANGED <<now, store, at, records, recordable, returned, ghostVars>>

\* get()
Get(k) ==
  /\ "read" \in Env
  /\ answer' = [call |-> "get", records |-> Held(k)]
  /\ store' = Read(k)
  /\ UNCHANGED <<now, updateVars, recorded, own, log, popped>>

\* Mutant: pop() reads.
PopKeeping(k) ==
  /\ "pop" \in Env
  /\ answer' = [call |-> "pop", records |-> Held(k)]
  /\ store' = Read(k)
  /\ popped' = popped \cup Elements(Held(k))
  /\ log' = [log EXCEPT ![k] = <<>>]
  /\ UNCHANGED <<now, updateVars, recorded, own>>

\* pop()
Pop(k) ==
  /\ "pop" \in Env
  /\ answer' = [call |-> "pop", records |-> Held(k)]
  /\ store' = Without(Purged(store, now), k)
  /\ popped' = popped \cup Elements(Held(k))
  /\ log' = [log EXCEPT ![k] = <<>>]
  /\ UNCHANGED <<now, updateVars, recorded, own>>

\* clear()
Clear(k) ==
  /\ "clear" \in Env
  /\ store' = Without(Purged(store, now), k)
  /\ log' = [log EXCEPT ![k] = <<>>]
  /\ UNCHANGED <<now, updateVars, recorded, own, popped, answer>>

Next ==
  \/ Tick
  \/ \E u \in Update :
       \/ Take(u) \/ Match(u) \/ NextGroup(u)
       \/ Return(u) \/ Raise(u) \/ Continue(u) \/ Stop(u)
       \/ EndOfGroups(u) \/ RecordOwn(u) \/ RecordMany(u) \/ RecordFails(u)
  \/ \E k \in Key : Get(k) \/ Pop(k) \/ Clear(k)

Spec == Init /\ [][Next]_vars
-----------------------------------------------------------------------------
\* What the store has of a key is the newest part of what the key was given,
\* at most max_history_len records, however many updates, reads, expiries and
\* evictions came between (memory_update_history_store.py:67).
HeldIsNewest ==
  \A k \in Key : /\ IsSuffix(store.heap[k], log[k])
                 /\ Len(store.heap[k]) <= MaxLen

\* The history of an update is all of the handlers that returned, in the order
\* they ran, or nothing: never part of it, and never a handler that raised or
\* passed the update on (dispatcher.py:240).
BatchIsWhatReturned == \A u \in Update : recorded[u] \in {<<>>, returned[u]}

\* No answer has an expired record (update_history_store.py:49).
AnswersAreFresh ==
  [][answer' # answer => \A r \in Elements(answer'.records) : now < r.at + Ttl]_vars

\* What pop() returned no later get() or pop() returns, so that of two
\* handlers that go back only one goes over the same record.
PoppedOnce ==
  [][answer' # answer => Elements(answer'.records) \cap popped = {}]_vars

\* A record is valid for ttl seconds: while it is that young, and one of the
\* newest of its key, it is held (memory_update_history_store.py:28).
FreshIsHeld ==
  \A k \in Key : LET young == NewestOf(CleanUp(log[k]))
                 IN Elements(young) \subseteq Elements(Held(k))
=============================================================================
