------------------------------- MODULE Configure -------------------------------
(***************************************************************************)
(* The life of an engine behind the C entry points of engine_api.cpp, and  *)
(* Engine::configure step by step.  Every step that allocates may fail;    *)
(* the exception ends the call, and what it had built goes with it.        *)
(*                                                                         *)
(* What makes one entry acceptable, and the book made of it, are in        *)
(* BookLayout; here an entry is acceptable or not, and a book is known by  *)
(* its instrument and band.  The order pool and the order index are known  *)
(* by whether they have the room the engine counts on.                     *)
(***************************************************************************)
EXTENDS Integers, Sequences

CONSTANTS
  Lists,     \* arguments of configure: sequences of InstrumentConfig, or NullList
  NullList,  \* a null instruments pointer
  NoCall,    \* no call of configure is in progress
  CountMax   \* UINT32_MAX

\* A list has a length and that many entries; NoCall is no list.
ASSUME ListsAssumption ==
  /\ NoCall \notin Lists
  /\ \A arg \in Lists \ {NullList} :
       /\ Len(arg) \in Nat /\ DOMAIN arg = 1 .. Len(arg)
       /\ \A n \in DOMAIN arg : arg[n].acceptable \in BOOLEAN

VARIABLES
  alive,             \* does the host hold an engine?
  configured,
  books,             \* books_: the configured books, in the order of the list
  instrument_index,  \* instrument_index_: instrument -> position in books
  roomy,             \* pool_ and order_index_ have the default capacity
  pc,                \* the step configure is at; "idle" outside it
  list,              \* its argument
  made,              \* its locals: the books and the index under construction
  result             \* what it returned

vars == <<alive, configured, books, instrument_index, roomy, pc, list, made, result>>

NoIndex == [i \in {} |-> i]
NotMade == [books |-> <<>>, index |-> NoIndex]

\* A new Engine, and what is left when there is none.
Fresh ==
  /\ configured' = FALSE
  /\ books' = <<>>
  /\ instrument_index' = NoIndex
  /\ roomy' = FALSE
  /\ result' = "none"

Init ==
  /\ alive = FALSE /\ configured = FALSE
  /\ books = <<>> /\ instrument_index = NoIndex /\ roomy = FALSE
  /\ pc = "idle" /\ list = NoCall /\ made = NotMade /\ result = "none"

\* xmatch_create.  Without a listener, or when new throws, it returns null and
\* the host has nothing.
xmatch_create ==
  /\ ~alive
  /\ alive' = TRUE
  /\ Fresh
  /\ UNCHANGED <<pc, list, made>>

CreateFails == ~alive /\ UNCHANGED vars

xmatch_destroy ==
  /\ alive /\ pc = "idle"
  /\ alive' = FALSE
  /\ Fresh
  /\ UNCHANGED <<pc, list, made>>

-----------------------------------------------------------------------------
Call(arg) ==
  /\ alive /\ pc = "idle"
  /\ pc' = "check"
  /\ list' = arg
  /\ result' = "none"
  /\ UNCHANGED <<alive, configured, books, instrument_index, roomy, made>>

\* The call returns and its locals go.
Return(outcome) ==
  /\ result' = outcome
  /\ pc' = "idle"
  /\ list' = NoCall
  /\ made' = NotMade

Refuse(outcome) ==
  /\ Return(outcome)
  /\ UNCHANGED <<alive, configured, books, instrument_index, roomy>>

AlreadyConfigured == pc = "check" /\ configured /\ Refuse("kAlreadyConfigured")

ListUsable == list # NullList /\ Len(list) \in 1 .. CountMax

RefuseList == pc = "check" /\ ~configured /\ ~ListUsable /\ Refuse("kInvalidArgument")

\* The vector of books, and the index with its room.
StartBuilding ==
  /\ pc = "check" /\ ~configured /\ ListUsable
  /\ pc' = "entries"
  /\ UNCHANGED <<alive, configured, books, instrument_index, roomy, list, made, result>>

-----------------------------------------------------------------------------
Done  == Len(made.books) = Len(list)
Entry == list[Len(made.books) + 1]

\* What books[i].configure makes of an entry.
BookOf(entry) == [instrument_id |-> entry.instrument_id, band |-> entry.band]

\* Slip: an instrument may be listed twice.
EntryWrong_no_duplicates(entry) == ~entry.acceptable

EntryWrong(entry) == ~entry.acceptable \/ entry.instrument_id \in DOMAIN made.index

RefuseEntry ==
  pc = "entries" /\ ~Done /\ EntryWrong(Entry) /\ Refuse("kInvalidArgument")

\* books[i].configure, and the instrument's place in the index.
AddEntry ==
  /\ pc = "entries"
  /\ ~Done
  /\ ~EntryWrong(Entry)
  /\ made' = [books |-> Append(made.books, BookOf(Entry)),
              index |-> [i \in DOMAIN made.index \cup {Entry.instrument_id} |->
                           IF i = Entry.instrument_id THEN Len(made.books) + 1
                           ELSE made.index[i]]]
  /\ UNCHANGED <<alive, configured, books, instrument_index, roomy, pc, list, result>>

\* Slip: the engine counts as configured before pool and order index are made.
Commit_early ==
  /\ pc = "entries"
  /\ Done
  /\ books' = made.books
  /\ instrument_index' = made.index
  /\ configured' = TRUE
  /\ Return("kOk")
  /\ UNCHANGED <<alive, roomy>>

\* The pool and the order index are made, and everything is moved into place.
Commit ==
  /\ pc = "entries"
  /\ Done
  /\ books' = made.books
  /\ instrument_index' = made.index
  /\ roomy' = TRUE
  /\ configured' = TRUE
  /\ Return("kOk")
  /\ UNCHANGED alive

\* bad_alloc out of a step that builds: the books and the index, one book's
\* ladder, levels or bitmaps, the pool or the order index.
OutOfMemory ==
  /\ \/ pc = "check" /\ ~configured /\ ListUsable
     \/ pc = "entries" /\ (~Done => ~EntryWrong(Entry))
  /\ Refuse("kOutOfMemory")

Proceed ==
  \/ AlreadyConfigured \/ RefuseList \/ StartBuilding
  \/ RefuseEntry \/ AddEntry \/ Commit \/ OutOfMemory

Next ==
  \/ xmatch_create \/ CreateFails \/ xmatch_destroy
  \/ \E arg \in Lists : Call(arg)
  \/ Proceed

Spec == Init /\ [][Next]_vars /\ WF_vars(Proceed)

-----------------------------------------------------------------------------
(***************************************************************************)
(* configure as its callers know it.  A book is reached the way find_book  *)
(* reaches it, through the index.                                          *)
(***************************************************************************)
Host == INSTANCE Lifecycle WITH
  pending <- list,
  setup   <- IF ~configured THEN NoIndex
             ELSE [i \in DOMAIN instrument_index |-> books[instrument_index[i]].band]

(***************************************************************************)
(* The steps of configure, failing anywhere, amount to one call that takes *)
(* effect or does not, and always returns (matching_engine_api.hpp:222-225 *)
(* and the comments at engine.cpp:25-26).                                  *)
(***************************************************************************)
ImplementsLifecycle == Host!Spec

(***************************************************************************)
(* Trading starts on complete structures: whenever the engine takes        *)
(* orders, each instrument leads to its own book, none is left without     *)
(* one, and pool and index have the room that keeps them from growing.     *)
(***************************************************************************)
ConfiguredIsComplete ==
  configured =>
    /\ roomy
    /\ \A n \in DOMAIN books :
         /\ books[n].instrument_id \in DOMAIN instrument_index
         /\ instrument_index[books[n].instrument_id] = n
    /\ \A i \in DOMAIN instrument_index : instrument_index[i] \in DOMAIN books

=============================================================================
