------------------------------- MODULE Lifecycle -------------------------------
(***************************************************************************)
(* What a host may rely on while it creates, configures and destroys an    *)
(* engine (matching_engine_api.hpp:99-109 and 220-234): a call of          *)
(* configure takes effect as a whole or not at all, its result tells       *)
(* which, a failed one may be followed by another, and every call returns. *)
(***************************************************************************)
EXTENDS Integers, Sequences

CONSTANTS
  Lists,     \* arguments of configure: sequences of InstrumentConfig, or NullList
  NullList,  \* a null instruments pointer
  NoCall,    \* no call of configure is in progress
  CountMax   \* UINT32_MAX

VARIABLES
  alive,    \* does the host hold an engine?
  setup,    \* instrument -> the band it trades in
  pending,  \* the argument of the call of configure in progress
  result    \* what the last call of configure returned

vars == <<alive, setup, pending, result>>

NoBand == [i \in {} |-> i]

Init == alive = FALSE /\ setup = NoBand /\ pending = NoCall /\ result = "none"

Create == ~alive /\ alive' = TRUE /\ UNCHANGED <<setup, pending, result>>

Destroy ==
  /\ alive /\ pending = NoCall
  /\ alive' = FALSE
  /\ setup' = NoBand
  /\ result' = "none"
  /\ UNCHANGED pending

Request(list) ==
  /\ alive /\ pending = NoCall
  /\ pending' = list
  /\ result' = "none"
  /\ UNCHANGED <<alive, setup>>

\* An argument that is right in every way listed at ConfigureResult.
Valid(list) ==
  /\ list # NullList
  /\ Len(list) \in 1 .. CountMax
  /\ \A n \in DOMAIN list : list[n].acceptable
  /\ \A n, m \in DOMAIN list : list[n].instrument_id = list[m].instrument_id => n = m

BandsOf(list) ==
  [i \in {list[n].instrument_id : n \in DOMAIN list} |->
     list[CHOOSE n \in DOMAIN list : list[n].instrument_id = i].band]

\* Memory may run out before a wrong argument is noticed.
Outcome(list) ==
  IF setup # NoBand THEN {"kAlreadyConfigured"}
  ELSE IF Valid(list) THEN {"kOk", "kOutOfMemory"}
  ELSE {"kInvalidArgument"} \cup IF list = NullList THEN {} ELSE {"kOutOfMemory"}

Reply ==
  /\ pending # NoCall
  /\ pending' = NoCall
  /\ result' \in Outcome(pending)
  /\ setup' = IF result' = "kOk" THEN BandsOf(pending) ELSE setup
  /\ UNCHANGED alive

Next == Create \/ Destroy \/ (\E list \in Lists : Request(list)) \/ Reply

Spec == Init /\ [][Next]_vars /\ WF_vars(Reply)

=============================================================================
