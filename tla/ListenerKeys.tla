---------------------------- MODULE ListenerKeys ----------------------------
(***************************************************************************)
(* ListenerKey and its search order (src/pyroflow/models.py).              *)
(*                                                                         *)
(* A key names a conversation slot: a chat, and optionally a user and a    *)
(* message of it.  An update carries the most specific key it can; a       *)
(* listener for it may be registered under any combination of the parts    *)
(* that key carries.  sub_keys() lists those combinations in the order in  *)
(* which UpdateListener.resolve() tries them.                              *)
(*                                                                         *)
(* The code encodes a combination as a bit mask over the fields after      *)
(* chat_id (bit 1 = user_id, bit 2 = message_id) and takes the masks from  *)
(* itertools.combinations.  Here a combination is the set of the fields it *)
(* keeps, and itertools.combinations is the lexicographic order on the     *)
(* ascending lists of the kept fields.                                     *)
(***************************************************************************)
EXTENDS Naturals, Sequences, FiniteSetsExt

CONSTANTS ChatId, UserId, MessageId,
          Absent              \* None in an optional component of a key

ASSUME AbsentAssumption == Absent \notin UserId \cup MessageId

ListenerKey ==
  [chat_id : ChatId, user_id : UserId \cup {Absent},
   message_id : MessageId \cup {Absent}]

\* The optional components in the order the dataclass declares them.
OptionalField == <<"user_id", "message_id">>

Carried(key) == {i \in DOMAIN OptionalField : key[OptionalField[i]] # Absent}

\* combinations(optional, size): the size-element choices, in the order in
\* which the first component they differ on comes first.
EarlierCombo(a, b) ==
  \E i \in a \ b : \A j \in (a \ b) \cup (b \ a) : i <= j

\* Mutant: of equal sizes the last declared component wins.
BeforeInPlanReversed(a, b) ==
  \/ Cardinality(a) > Cardinality(b)
  \/ Cardinality(a) = Cardinality(b) /\ EarlierCombo(b, a)

\* _get_plan: larger combinations first, equal sizes in combinations() order.
BeforeInPlan(a, b) ==
  \/ Cardinality(a) > Cardinality(b)
  \/ Cardinality(a) = Cardinality(b) /\ EarlierCombo(a, b)

Plan(carried) ==
  CHOOSE plan \in [1..Cardinality(SUBSET carried) -> SUBSET carried] :
    /\ Range(plan) = SUBSET carried
    /\ \A i, j \in DOMAIN plan : i < j => BeforeInPlan(plan[i], plan[j])

\* The key that keeps only the components in keep.
Truncate(key, keep) ==
  [key EXCEPT !.user_id = IF 1 \in keep THEN @ ELSE Absent,
              !.message_id = IF 2 \in keep THEN @ ELSE Absent]

\* _get_plan of every mask, made once: ListenerKey.PLANS.
PLANS == [carried \in SUBSET DOMAIN OptionalField |-> Plan(carried)]

\* sub_keys(min_dep) ends at the first combination with too few components.
SubKeysDownTo(key, min_dep) ==
  LET plan == PLANS[Carried(key)]
      tooShort == {i \in DOMAIN plan : Cardinality(plan[i]) + 1 < min_dep}
      end == IF tooShort = {} THEN Len(plan) ELSE Min(tooShort) - 1
  IN  [i \in 1..end |-> Truncate(key, plan[i])]

SubKeysOf(key) == SubKeysDownTo(key, 1)
=============================================================================
