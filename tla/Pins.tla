-------------------------------- MODULE Pins --------------------------------
(***************************************************************************)
(* The pinned environments, sections/environments/pins.ts: the pure        *)
(* computation check renders and apply executes.  `live` is the live pins  *)
(* in rank order, under folded names; `declared` is the pin declarations   *)
(* in file order, each [name, pinned].                                     *)
(***************************************************************************)
EXTENDS Integers, Sequences, FiniteSets, SequencesExt

CONSTANTS
  Fold,         \* environmentKey(): the key every lookup reads
  MaxPinned     \* MAX_PINNED_ENVIRONMENTS, GitHub's cap

EnvKey(name) == Fold[name]
Declaration == [name : DOMAIN Fold, pinned : BOOLEAN]
EnvKeys == {EnvKey(n) : n \in DOMAIN Fold}

NamesOf[s \in Seq(Declaration)] == [i \in DOMAIN s |-> EnvKey(s[i].name)]

(* The declared pins, and the live ones declared pinned: false, in file order. *)
Desired(declared) == LET Is(p) == p.pinned IN NamesOf[SelectSeq(declared, Is)]
Unpins(declared, live) ==
  LET Is(p) == ~p.pinned /\ Contains(live, EnvKey(p.name)) IN NamesOf[SelectSeq(declared, Is)]

UnpinKeys(declared) == {EnvKey(declared[i].name) : i \in {j \in DOMAIN declared : ~declared[j].pinned}}

(* The declared pins that are not live, and the live ones that stay. *)
Missing(declared, live) ==
  LET IsMissing(k) == ~Contains(live, k) IN SelectSeq(Desired(declared), IsMissing)
PostUnpin(declared, live) ==
  LET Stays(k) == k \notin UnpinKeys(declared) IN SelectSeq(live, Stays)

(* A pin moved left to a rank. *)
Moved(order, k, rank) == InsertAt(Remove(order, k), rank, k)

PinOp(role, name, pinned, rank) == [role |-> role, name |-> name, pinned |-> pinned, rank |-> rank]

(* The loop over the declared pins, from the i-th on: each is moved to its rank
   unless it is there already, and the order the next one is compared with is
   the order after the move.                                               *)
Reorders[want \in Seq(EnvKeys), order \in Seq(EnvKeys), i \in Nat] ==
  IF i > Len(want) THEN <<>>
  ELSE IF order[i] = want[i] THEN Reorders[want, order, i + 1]
  ELSE <<PinOp("reorder", want[i], TRUE, i)>> \o Reorders[want, Moved(order, want[i], i), i + 1]

UnpinOps[names \in Seq(EnvKeys)] == [i \in DOMAIN names |-> PinOp("pin", names[i], FALSE, 0)]
PinOps[names \in Seq(EnvKeys)] == [i \in DOMAIN names |-> PinOp("pin", names[i], TRUE, 0)]

(* planPinned(): unpins, then pins, which append to what stays, then leftward
   moves.                                                                  *)
PlanPinsPinningFirst(declared, live) ==
  PinOps[Missing(declared, live)] \o UnpinOps[Unpins(declared, live)]
    \o Reorders[Desired(declared), PostUnpin(declared, live) \o Missing(declared, live), 1]
PlanPins(declared, live) ==
  UnpinOps[Unpins(declared, live)] \o PinOps[Missing(declared, live)]
    \o Reorders[Desired(declared), PostUnpin(declared, live) \o Missing(declared, live), 1]

(* The plan executes nothing at all when the cap would be exceeded at its end. *)
Overflow(declared, live) ==
  Len(PostUnpin(declared, live)) + Len(Missing(declared, live)) > MaxPinned

(* GitHub: a pin lands at the tail and is refused over the cap, a move takes a
   pinned environment to a rank there is.                                  *)
PinAccepts(op, pins) ==
  CASE op.role = "reorder" -> Contains(pins, op.name) /\ op.rank \in DOMAIN pins
    [] op.pinned -> Contains(pins, op.name) \/ Len(pins) < MaxPinned
    [] OTHER -> TRUE
PinAfter(op, pins) ==
  CASE op.role = "reorder" -> Moved(pins, op.name, op.rank)
    [] op.pinned -> IF Contains(pins, op.name) THEN pins ELSE Append(pins, op.name)
    [] OTHER -> Remove(pins, op.name)

(* What the declarations ask for, said without the plan: the declared pins lead
   in file order, and none declared unpinned is pinned.                    *)
PinsMeet(declared, pins) ==
  /\ IsPrefix(Desired(declared), pins)
  /\ \A k \in UnpinKeys(declared) : ~Contains(pins, k)

(* What they leave alone: the undeclared pins, in their order. *)
PinsSpare(declared, before, after) ==
  LET Other(k) == k \notin UnpinKeys(declared) /\ ~Contains(Desired(declared), k)
  IN  SelectSeq(before, Other) = SelectSeq(after, Other)
=============================================================================
