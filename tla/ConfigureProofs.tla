---------------------------- MODULE ConfigureProofs ----------------------------
(***************************************************************************)
(* configure takes effect as a whole or not at all, for every argument     *)
(* list and every number of instruments: the proofs about Configure.       *)
(***************************************************************************)
EXTENDS Configure, TLAPS

(***************************************************************************)
(* What the loop over the entries has built: the books and the index of    *)
(* the entries it has passed, all of them right.                           *)
(***************************************************************************)
Passed == 1 .. Len(made.books)

BuiltSoFar ==
  /\ made.books \in Seq({BookOf(list[n]) : n \in DOMAIN list})
  /\ Len(made.books) <= Len(list)
  /\ DOMAIN made.index = {list[n].instrument_id : n \in Passed}
  /\ \A n \in Passed :
       /\ made.books[n] = BookOf(list[n])
       /\ list[n].acceptable
       /\ made.index[list[n].instrument_id] = n

CallConsistent ==
  /\ pc \in {"idle", "check", "entries"}
  /\ pc = "idle" => list = NoCall /\ made = NotMade
  /\ pc # "idle" => alive /\ list \in Lists /\ made = [books |-> made.books, index |-> made.index]
  /\ pc = "check" => made = NotMade
  /\ pc = "entries" => ~configured /\ ListUsable /\ BuiltSoFar

EngineConsistent ==
  /\ alive \in BOOLEAN /\ configured \in BOOLEAN
  /\ ~alive => ~configured /\ result = "none"
  /\ configured => ConfiguredIsComplete /\ DOMAIN instrument_index # {}

IInv == CallConsistent /\ EngineConsistent

-----------------------------------------------------------------------------
\* A list that passes the first check has entries.
LEMMA UsableList ==
  ASSUME list \in Lists, ListUsable
  PROVE  Len(list) \in Nat \ {0} /\ DOMAIN list = 1 .. Len(list)
BY ListsAssumption DEF ListUsable

\* Before the first entry there is nothing to be right about.
LEMMA NothingBuilt ==
  ASSUME list \in Lists, ListUsable, made = NotMade
  PROVE  BuiltSoFar
<1>1. Len(list) \in Nat \ {0}
  BY UsableList
<1>2. made.books = <<>> /\ made.index = NoIndex /\ Len(made.books) = 0
  BY DEF NotMade
<1>3. made.books \in Seq({BookOf(list[n]) : n \in DOMAIN list})
  BY <1>2
<1>4. Passed = {}
  BY <1>2 DEF Passed
<1>5. DOMAIN NoIndex = {}
  BY DEF NoIndex
<1>6. QED
  BY <1>1, <1>2, <1>3, <1>4, <1>5 DEF BuiltSoFar

\* One pass of the loop over a right entry.
LEMMA OneMore ==
  ASSUME list \in Lists, ListUsable, BuiltSoFar, AddEntry
  PROVE  BuiltSoFar'
<1> DEFINE k == Len(made.books)
           S == {BookOf(list[n]) : n \in DOMAIN list}
<1>1. Len(list) \in Nat /\ DOMAIN list = 1 .. Len(list)
  BY UsableList
<1>2. k \in Nat /\ k < Len(list) /\ k + 1 \in DOMAIN list
  BY <1>1 DEF BuiltSoFar, AddEntry, Done
<1>3. Entry = list[k + 1] /\ Entry.acceptable /\ Entry.instrument_id \notin DOMAIN made.index
  BY DEF AddEntry, Entry, EntryWrong
<1>4. list' = list /\ made'.books = Append(made.books, BookOf(Entry))
  BY DEF AddEntry
<1>5. BookOf(Entry) \in S
  BY <1>2, <1>3
<1>6. /\ made'.books \in Seq(S) /\ Len(made'.books) = k + 1
      /\ made'.books[k + 1] = BookOf(Entry)
      /\ \A n \in 1 .. k : made'.books[n] = made.books[n]
  BY <1>2, <1>4, <1>5 DEF BuiltSoFar
<1>7. DOMAIN made'.index = DOMAIN made.index \cup {Entry.instrument_id}
  BY DEF AddEntry
<1>8. /\ made'.index[Entry.instrument_id] = k + 1
      /\ \A i \in DOMAIN made.index : made'.index[i] = made.index[i]
  BY <1>3 DEF AddEntry
<1>9. Passed = 1 .. k /\ Passed' = 1 .. k + 1
  BY <1>6 DEF Passed
<1>10. DOMAIN made'.index = {list[n].instrument_id : n \in 1 .. k + 1}
  BY <1>2, <1>3, <1>7, <1>9 DEF BuiltSoFar
<1>11. ASSUME NEW n \in 1 .. k + 1
       PROVE  /\ made'.books[n] = BookOf(list[n])
              /\ list[n].acceptable
              /\ made'.index[list[n].instrument_id] = n
  <2>1. CASE n = k + 1
    BY <2>1, <1>3, <1>6, <1>8
  <2>2. CASE n # k + 1
    <3>1. n \in Passed
      BY <2>2, <1>2, <1>9
    <3>2. list[n].instrument_id \in DOMAIN made.index
      BY <3>1 DEF BuiltSoFar
    <3>3. QED
      BY <3>1, <3>2, <1>6, <1>8, <1>9 DEF BuiltSoFar
  <2>3. QED
    BY <2>1, <2>2
<1>12. Len(made'.books) <= Len(list)
  BY <1>1, <1>2, <1>6
<1>13. QED
  BY <1>4, <1>6, <1>9, <1>10, <1>11, <1>12 DEF BuiltSoFar

\* What Commit moves into place is complete.
LEMMA CommitComplete ==
  ASSUME list \in Lists, ListUsable, BuiltSoFar, Commit
  PROVE  ConfiguredIsComplete' /\ DOMAIN instrument_index' # {}
<1>1. Len(list) \in Nat \ {0} /\ Len(made.books) = Len(list)
  BY UsableList DEF Commit, Done
<1>2. books' = made.books /\ instrument_index' = made.index /\ roomy' = TRUE
  BY DEF Commit
<1>3. DOMAIN made.books = Passed
  BY DEF BuiltSoFar, Passed
<1>4. \A n \in Passed : made.books[n].instrument_id = list[n].instrument_id
  <2>1. \A n \in Passed : made.books[n] = BookOf(list[n])
    BY DEF BuiltSoFar
  <2>2. \A n \in Passed : BookOf(list[n]).instrument_id = list[n].instrument_id
    BY DEF BookOf
  <2>3. QED
    BY <2>1, <2>2
<1>5. \A n \in Passed :
        /\ made.books[n].instrument_id \in DOMAIN made.index
        /\ made.index[made.books[n].instrument_id] = n
  BY <1>4 DEF BuiltSoFar
<1>6. \A i \in DOMAIN made.index : made.index[i] \in Passed
  BY DEF BuiltSoFar
<1>7. 1 \in Passed
  BY <1>1 DEF Passed
<1>8. DOMAIN made.index # {}
  BY <1>5, <1>7
<1>9. QED
  BY <1>2, <1>3, <1>5, <1>6, <1>8 DEF ConfiguredIsComplete

-----------------------------------------------------------------------------
\* Before the first call nothing is configured and no call is in progress.
LEMMA InitConsistent == Init => IInv
BY DEF Init, IInv, CallConsistent, EngineConsistent, NotMade

\* The call returns without having changed the engine.
LEMMA Refused ==
  ASSUME IInv, alive, NEW outcome, Refuse(outcome)
  PROVE  IInv'
BY DEF IInv, CallConsistent, EngineConsistent, ConfiguredIsComplete, Refuse, Return, NotMade

\* Every step keeps the invariant.
LEMMA NextConsistent == IInv /\ [Next]_vars => IInv'
<1> SUFFICES ASSUME IInv, [Next]_vars PROVE IInv'
  OBVIOUS
<1>1. CASE xmatch_create
  BY <1>1 DEF xmatch_create, Fresh, IInv, CallConsistent, EngineConsistent
<1>2. CASE xmatch_destroy
  BY <1>2 DEF xmatch_destroy, Fresh, IInv, CallConsistent, EngineConsistent
<1>3. CASE \E arg \in Lists : Call(arg)
  BY <1>3 DEF Call, IInv, CallConsistent, EngineConsistent, ConfiguredIsComplete, NotMade
<1>4. CASE AlreadyConfigured \/ RefuseList \/ RefuseEntry \/ OutOfMemory
  <2>1. PICK outcome : Refuse(outcome)
    BY <1>4 DEF AlreadyConfigured, RefuseList, RefuseEntry, OutOfMemory
  <2>2. alive
    BY <1>4 DEF AlreadyConfigured, RefuseList, RefuseEntry, OutOfMemory, IInv, CallConsistent
  <2>3. QED
    BY <2>1, <2>2, Refused
<1>5. CASE StartBuilding
  <2>1. BuiltSoFar /\ list \in Lists /\ alive /\ ListUsable
    BY <1>5, NothingBuilt DEF StartBuilding, IInv, CallConsistent
  <2>2. BuiltSoFar' /\ ListUsable'
    BY <1>5, <2>1 DEF StartBuilding, BuiltSoFar, Passed, ListUsable
  <2>3. QED
    BY <1>5, <2>1, <2>2 DEF StartBuilding, IInv, CallConsistent, EngineConsistent
<1>6. CASE AddEntry
  <2>1. BuiltSoFar /\ list \in Lists /\ alive /\ ListUsable /\ ~configured
    BY <1>6 DEF AddEntry, IInv, CallConsistent
  <2>2. BuiltSoFar'
    BY <1>6, <2>1, OneMore
  <2>3. ListUsable'
    BY <1>6, <2>1 DEF AddEntry, ListUsable
  <2>4. made' = [books |-> made'.books, index |-> made'.index]
    BY <1>6 DEF AddEntry
  <2>5. QED
    BY <1>6, <2>1, <2>2, <2>3, <2>4 DEF AddEntry, IInv, CallConsistent, EngineConsistent
<1>7. CASE Commit
  <2>1. BuiltSoFar /\ list \in Lists /\ alive /\ ListUsable
    BY <1>7 DEF Commit, IInv, CallConsistent
  <2>2. ConfiguredIsComplete' /\ DOMAIN instrument_index' # {}
    BY <1>7, <2>1, CommitComplete
  <2>3. QED
    BY <1>7, <2>1, <2>2 DEF Commit, Return, IInv, CallConsistent, EngineConsistent
<1>8. CASE UNCHANGED vars
  BY <1>8 DEF vars, IInv, CallConsistent, EngineConsistent, ConfiguredIsComplete, BuiltSoFar,
              Passed, ListUsable
<1>9. QED
  BY <1>1, <1>2, <1>3, <1>4, <1>5, <1>6, <1>7, <1>8 DEF Next, Proceed, CreateFails

\* IInv holds in every state, whichever allocation fails in whichever call
\* (engine.cpp:27-67).
THEOREM ConfigureInvariant == Spec => []IInv
BY InitConsistent, NextConsistent, PTL DEF Spec

(***************************************************************************)
(* An engine that takes orders has a book for each of its instruments, an  *)
(* index that leads to it, and a pool and an id index with room, however   *)
(* often configure failed before (engine.cpp:53-65).                       *)
(***************************************************************************)
THEOREM ConfiguredIsCompleteHolds == Spec => []ConfiguredIsComplete
<1>1. IInv => ConfiguredIsComplete
  BY DEF IInv, EngineConsistent, ConfiguredIsComplete
<1>2. QED
  BY <1>1, ConfigureInvariant, PTL

-----------------------------------------------------------------------------
(***************************************************************************)
(* The bands a host sees, where an engine is configured and where not.     *)
(***************************************************************************)
Bands ==
  IF ~configured THEN NoIndex
  ELSE [i \in DOMAIN instrument_index |-> books[instrument_index[i]].band]

\* A configured engine has bands.
LEMMA SetUp == ASSUME IInv, configured PROVE Bands # Host!NoBand
<1>1. DOMAIN instrument_index # {}
  BY DEF IInv, EngineConsistent
<1>2. DOMAIN Bands = DOMAIN instrument_index
  BY DEF Bands
<1>3. DOMAIN Host!NoBand = {}
  BY DEF Host!NoBand
<1>4. QED
  BY <1>1, <1>2, <1>3

\* A call that returns without effect is the reply a host was promised.
LEMMA RefusalIsReply ==
  ASSUME IInv, list # NoCall, NEW outcome, outcome # "kOk", Refuse(outcome),
         outcome \in Host!Outcome(list)
  PROVE  Host!Reply
BY DEF Refuse, Return, Host!Reply

\* Entries wrong in themselves or for those before them make the list wrong.
LEMMA WrongEntry ==
  ASSUME IInv, RefuseEntry
  PROVE  ~Host!Valid(list)
<1>1. /\ list \in Lists /\ ListUsable /\ BuiltSoFar /\ ~Done
      /\ EntryWrong(Entry)
  BY DEF RefuseEntry, IInv, CallConsistent
<1> DEFINE k == Len(made.books)
<1>2. Len(list) \in Nat /\ DOMAIN list = 1 .. Len(list)
  BY <1>1, UsableList
<1>3. k \in Nat /\ k + 1 \in DOMAIN list
  BY <1>1, <1>2 DEF BuiltSoFar, Done
<1>4. CASE ~list[k + 1].acceptable
  BY <1>3, <1>4 DEF Host!Valid
<1>5. CASE list[k + 1].instrument_id \in DOMAIN made.index
  <2>1. PICK m \in 1 .. k : list[m].instrument_id = list[k + 1].instrument_id
    BY <1>1, <1>5 DEF BuiltSoFar, Passed
  <2>2. m \in DOMAIN list /\ m # k + 1
    BY <1>2, <1>3
  <2>3. QED
    BY <1>3, <2>1, <2>2 DEF Host!Valid
<1>6. QED
  BY <1>1, <1>4, <1>5 DEF EntryWrong, Entry

\* A list all of whose entries were added is right, and gives its bands.
LEMMA AllAdded ==
  ASSUME IInv, Commit
  PROVE  Host!Valid(list) /\ Bands' = Host!BandsOf(list)
<1>1. list \in Lists /\ ListUsable /\ BuiltSoFar /\ Len(made.books) = Len(list)
  BY DEF Commit, Done, IInv, CallConsistent
<1>2. DOMAIN list = 1 .. Len(list) /\ Passed = DOMAIN list
  BY <1>1, UsableList DEF Passed
<1>3. \A n \in DOMAIN list :
        list[n].acceptable /\ made.index[list[n].instrument_id] = n
  BY <1>1, <1>2 DEF BuiltSoFar
<1>4. Host!Valid(list)
  BY <1>1, <1>2, <1>3 DEF Host!Valid, ListUsable
<1> DEFINE listed == {list[n].instrument_id : n \in DOMAIN list}
           first(i) == CHOOSE n \in DOMAIN list : list[n].instrument_id = i
<1>5. Bands' = [i \in DOMAIN made.index |-> made.books[made.index[i]].band]
  BY DEF Commit, Bands
<1>6. DOMAIN made.index = listed
  BY <1>1, <1>2 DEF BuiltSoFar
<1>7. ASSUME NEW i \in listed
      PROVE  made.books[made.index[i]].band = list[first(i)].band
  <2>1. first(i) \in DOMAIN list /\ list[first(i)].instrument_id = i
    OBVIOUS
  <2>2. made.index[i] = first(i)
    BY <1>3, <2>1
  <2>3. made.books[first(i)] = BookOf(list[first(i)])
    BY <1>1, <1>2, <2>1 DEF BuiltSoFar
  <2>4. BookOf(list[first(i)]).band = list[first(i)].band
    BY DEF BookOf
  <2>5. QED
    BY <2>2, <2>3, <2>4
<1>8. Host!BandsOf(list) = [i \in listed |-> list[first(i)].band]
  BY DEF Host!BandsOf
<1>9. QED
  BY <1>4, <1>5, <1>6, <1>7, <1>8

-----------------------------------------------------------------------------
\* A new engine is a host's without any instrument.
LEMMA InitRefines == Init => Host!Init
BY DEF Init, Host!Init, Host!NoBand, NoIndex

\* Every step is one the host knows, or one it does not see.
LEMMA NextRefines == IInv /\ [Next]_vars => [Host!Next]_Host!vars
<1> SUFFICES ASSUME IInv, [Next]_vars PROVE Host!Next \/ UNCHANGED Host!vars
  OBVIOUS
<1>0. pc # "idle" => list # NoCall
  BY ListsAssumption DEF IInv, CallConsistent
<1>1. CASE xmatch_create
  BY <1>1 DEF xmatch_create, Fresh, Host!Next, Host!Create, IInv, EngineConsistent
<1>2. CASE xmatch_destroy
  BY <1>2 DEF xmatch_destroy, Fresh, Host!Next, Host!Destroy, Host!NoBand, NoIndex, IInv,
              CallConsistent
<1>3. ASSUME NEW arg \in Lists, Call(arg)
      PROVE  Host!Request(arg)
  BY <1>3 DEF Call, Host!Request, IInv, CallConsistent
<1>4. CASE AlreadyConfigured
  <2>1. Bands # Host!NoBand
    BY <1>4, SetUp DEF AlreadyConfigured
  <2>2. "kAlreadyConfigured" \in Host!Outcome(list)
    BY <2>1 DEF Host!Outcome, Bands
  <2>3. QED
    BY <1>0, <1>4, <2>2, RefusalIsReply DEF AlreadyConfigured, Host!Next
<1>5. CASE RefuseList
  <2>1. ~Host!Valid(list)
    BY <1>5 DEF RefuseList, ListUsable, Host!Valid
  <2>2. "kInvalidArgument" \in Host!Outcome(list)
    BY <1>5, <2>1 DEF RefuseList, Host!Outcome, Host!NoBand, NoIndex
  <2>3. QED
    BY <1>0, <1>5, <2>2, RefusalIsReply DEF RefuseList, Host!Next
<1>6. CASE RefuseEntry
  <2>1. ~configured
    BY <1>6 DEF RefuseEntry, IInv, CallConsistent
  <2>2. "kInvalidArgument" \in Host!Outcome(list)
    BY <1>6, <2>1, WrongEntry DEF Host!Outcome, Host!NoBand, NoIndex
  <2>3. QED
    BY <1>0, <1>6, <2>2, RefusalIsReply DEF RefuseEntry, Host!Next
<1>7. CASE OutOfMemory
  <2>1. ~configured /\ list # NullList
    BY <1>7 DEF OutOfMemory, ListUsable, IInv, CallConsistent
  <2>2. "kOutOfMemory" \in Host!Outcome(list)
    BY <2>1 DEF Host!Outcome, Host!NoBand, NoIndex
  <2>3. QED
    BY <1>0, <1>7, <2>2, RefusalIsReply DEF OutOfMemory, Host!Next
<1>8. CASE Commit
  <2>1. ~configured /\ pc # "idle"
    BY <1>8 DEF Commit, IInv, CallConsistent
  <2>2. Host!Valid(list) /\ Bands' = Host!BandsOf(list)
    BY <1>8, AllAdded
  <2>3. "kOk" \in Host!Outcome(list)
    BY <2>1, <2>2 DEF Host!Outcome, Host!NoBand, NoIndex
  <2>4. Host!Reply
    BY <1>0, <1>8, <2>1, <2>2, <2>3 DEF Commit, Return, Bands, Host!Reply
  <2>5. QED
    BY <2>4 DEF Host!Next
<1>9. CASE StartBuilding \/ AddEntry \/ CreateFails \/ UNCHANGED vars
  BY <1>9 DEF StartBuilding, AddEntry, CreateFails, vars, Host!vars
<1>10. QED
  BY <1>1, <1>2, <1>3, <1>4, <1>5, <1>6, <1>7, <1>8, <1>9 DEF Next, Proceed, Host!Next

(***************************************************************************)
(* The safety part of ImplementsLifecycle: whatever fails where, a call of *)
(* configure changes what the host sees once, when it returns kOk, and     *)
(* then to exactly the listed instruments; any other result stands for no  *)
(* effect, and is one the argument or the memory accounts for.             *)
(***************************************************************************)
THEOREM ConfigureRefines == Spec => Host!Init /\ [][Host!Next]_Host!vars
BY InitRefines, NextRefines, ConfigureInvariant, PTL DEF Spec

=============================================================================
