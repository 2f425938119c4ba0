-------------------------------- MODULE QHsm --------------------------------
(***************************************************************************)
(* The hierarchical state machine of the framework (libraries/qp/qp.cpp):  *)
(* which states QHsm::init and QHsm::dispatch exit and enter, and in which *)
(* order, for every tree of states.                                        *)
(*                                                                         *)
(* A state handler is what it answers: it takes a transition, or its       *)
(* superstate is asked.  An event that no state takes changes nothing.     *)
(***************************************************************************)
EXTENDS Integers, FiniteSets, Sequences, SequencesExt

CONSTANTS
  States,
  top,       \* QHsm::top
  MaxDepth   \* QEP_MAX_NEST_DEPTH_

HsmAssumption == IsFiniteSet(States) /\ top \notin States /\ MaxDepth \in Nat

VARIABLES
  super,    \* the tree: of each state its superstate
  m_state,
  stable,   \* no transition is under way; until then m_state is its target so far
  failed,   \* an assertion has failed
  active,   \* the states that have been entered and not exited
  last      \* the last transition: its states, what it exited and entered

vars == <<super, m_state, stable, failed, active, last>>

\* A state, its superstate and so on, to top.
Chain ==
  LET chain[x \in States \cup {top}] == IF x = top THEN <<top>> ELSE <<x>> \o chain[super[x]]
  IN  chain

Above(x) == Range(Chain[x]) \ {x}

Trees ==
  LET Sub(tree, S) == {x \in States : tree[x] \in S}
      Rooted(tree) == LET below[n \in 0..Cardinality(States)] ==
                            IF n = 0 THEN {top} ELSE {top} \cup Sub(tree, below[n - 1])
                      IN  below[Cardinality(States)] = States \cup {top}
  IN  {tree \in [States -> States \cup {top}] : Rooted(tree)}

NoTransition == [from |-> top, source |-> top, target |-> top, exits |-> <<>>, entries |-> <<>>]

TypeOK ==
  /\ super \in [States -> States \cup {top}]
  /\ m_state \in States \cup {top}
  /\ stable \in BOOLEAN /\ failed \in BOOLEAN
  /\ active \in SUBSET States
  /\ last.from \in States \cup {top} /\ last.source \in States \cup {top}
  /\ last.target \in States \cup {top}
  /\ last.exits \in Seq(States) /\ last.entries \in Seq(States)

Init ==
  /\ super \in Trees
  /\ m_state = top
  /\ stable = FALSE /\ failed = FALSE
  /\ active = {}
  /\ last = NoTransition

-----------------------------------------------------------------------------
(* A transition.                                                           *)

Before(seq, x) == SubSeq(seq, 1, SelectInSeq(seq, LAMBDA y : y = x) - 1)

\* The cases of QHsm::dispatch, from the state whose handler took the
\* transition: what they exit from it upwards, and the path they enter.
SelfTransition(s, g)  == s = g                               \* (a)
IntoSubstate(s, g)    == super[g] = s                        \* (b)
Siblings(s, g)        == super[g] = super[s]                 \* (c)
ToSuperstate(s, g)    == super[s] = g                        \* (d)
IntoDescendant(s, g)  == s \in Above(g)                      \* (e)

\* (f) and (g): the lowest state above the source that is on the target's path.
LCA(s, g) == Chain[super[s]][SelectInSeq(Chain[super[s]], LAMBDA x : x \in Range(Chain[g]))]

\* (Mutant) A transition to a sibling does not exit its source.
ExitsNoSibling(s, g) ==
  IF SelfTransition(s, g) THEN <<s>>
  ELSE IF IntoSubstate(s, g) \/ IntoDescendant(s, g) \/ Siblings(s, g) THEN <<>>
  ELSE IF ToSuperstate(s, g) THEN <<s>>
  ELSE Before(Chain[s], LCA(s, g))

Exits(s, g) ==
  IF SelfTransition(s, g) THEN <<s>>
  ELSE IF IntoSubstate(s, g) \/ IntoDescendant(s, g) THEN <<>>
  ELSE IF Siblings(s, g) \/ ToSuperstate(s, g) THEN <<s>>
  ELSE Before(Chain[s], LCA(s, g))

\* (Mutant) The common superstate is entered, too.
EntryPathLCA(s, g) ==
  IF SelfTransition(s, g) \/ IntoSubstate(s, g) \/ Siblings(s, g) THEN <<g>>
  ELSE IF ToSuperstate(s, g) THEN <<>>
  ELSE IF IntoDescendant(s, g) THEN Before(Chain[g], s)
  ELSE Append(Before(Chain[g], LCA(s, g)), LCA(s, g))

EntryPath(s, g) ==
  IF SelfTransition(s, g) \/ IntoSubstate(s, g) \/ Siblings(s, g) THEN <<g>>
  ELSE IF ToSuperstate(s, g) THEN <<>>
  ELSE IF IntoDescendant(s, g) THEN Before(Chain[g], s)
  ELSE Before(Chain[g], LCA(s, g))

\* What cases (e) to (g) store of the target's path: up to the source or to top.
StoredPath(s, g) ==
  IF \/ SelfTransition(s, g) \/ IntoSubstate(s, g) \/ Siblings(s, g) \/ ToSuperstate(s, g)
  THEN <<g>>
  ELSE IF IntoDescendant(s, g) THEN Append(Before(Chain[g], s), s)
  ELSE Chain[g]

\* (Mutant) The last place is not used.
FitsStrictly(path) == Len(path) < MaxDepth

\* The assertions about the length of the path.
Fits(path) == Len(path) <= MaxDepth

\* dispatch: first the states below the source are exited.
Dispatch ==
  /\ stable
  /\ \E s \in Range(Chain[m_state]) \ {top}, g \in States :
       LET exits == Before(Chain[m_state], s) \o Exits(s, g)
           entries == Reverse(EntryPath(s, g))
       IN  IF Fits(StoredPath(s, g))
           THEN /\ active' = (active \ Range(exits)) \cup Range(entries)
                /\ m_state' = g
                /\ stable' = FALSE
                /\ last' = [from |-> m_state, source |-> s, target |-> g,
                            exits |-> exits, entries |-> entries]
                /\ UNCHANGED failed
           ELSE /\ failed' = TRUE
                /\ stable' = FALSE
                /\ last' = [NoTransition EXCEPT !.from = m_state, !.source = s, !.target = g]
                /\ UNCHANGED <<m_state, active>>
  /\ UNCHANGED super

\* The initial transition, of top in QHsm::init and then of the target.
InitialTransition ==
  /\ ~stable /\ ~failed
  /\ \E g \in {x \in States : m_state \in Above(x)} :
       LET path == Before(Chain[g], m_state)
       IN  /\ failed' = ~Fits(path)
           /\ m_state' = g
           /\ active' = active \cup Range(path)
           /\ last' = [from |-> m_state, source |-> m_state, target |-> g,
                       exits |-> <<>>, entries |-> Reverse(path)]
  /\ UNCHANGED <<super, stable>>

\* The target has no initial transition; top has one.
Settle ==
  /\ ~stable /\ ~failed /\ m_state # top
  /\ stable' = TRUE
  /\ UNCHANGED <<super, m_state, failed, active, last>>

\* Q_onAssert restarts the program, and with it the machine.
Restart ==
  /\ failed
  /\ m_state' = top
  /\ stable' = FALSE /\ failed' = FALSE
  /\ active' = {}
  /\ last' = NoTransition
  /\ UNCHANGED super

Next == Dispatch \/ InitialTransition \/ Settle \/ Restart

Spec == Init /\ [][Next]_vars

-----------------------------------------------------------------------------
(* Properties.                                                             *)

AtOrAbove(x) == Range(Chain[x])

\* The state a transition stays in: the lowest that is the source and the
\* target or above them; a transition to itself leaves its state.
Domain(s, g) ==
  IF s = g THEN super[s]
  ELSE CHOOSE d \in AtOrAbove(s) \cap AtOrAbove(g) :
         \A e \in AtOrAbove(s) \cap AtOrAbove(g) : e \in AtOrAbove(d)

Ordered(seq, R(_, _)) == \A i, j \in DOMAIN seq : i < j => R(seq[i], seq[j])

\* A transition exits what is active below that state, from the leaf upwards,
\* and enters what leads to its target, from above, and each of them once, so
\* that the active states are the current one and those above it (qp.cpp:243).
\* It fails only where states are nested deeper than QEP_MAX_NEST_DEPTH_
\* (qp.cpp:325).
ExitsAndEntries ==
  IF failed THEN \E x \in States : Len(Chain[x]) > MaxDepth
  ELSE /\ active = Range(Chain[m_state]) \ {top}
       /\ last # NoTransition =>
            LET d == IF last.source = top THEN top ELSE Domain(last.source, last.target)
            IN  /\ Range(last.exits) = AtOrAbove(last.from) \ AtOrAbove(d)
                /\ Ordered(last.exits, LAMBDA x, y : y \in Above(x))
                /\ Range(last.entries) = AtOrAbove(last.target) \ AtOrAbove(d)
                /\ Ordered(last.entries, LAMBDA x, y : x \in Above(y))

=============================================================================
