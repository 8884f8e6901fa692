-------------------------- MODULE MCCachedSideBook --------------------------
(***************************************************************************)
(* CachedSideBook on a small instance.                                     *)
(***************************************************************************)
EXTENDS CachedSideBook

(***************************************************************************)
(* Levels are interchangeable as long as each is in one place: the view    *)
(* puts the orders of a level where the level is referenced, and keeps     *)
(* apart any state in which a level is in no place or in two.              *)
(***************************************************************************)
LevelView ==
    <<[i \in Slots |-> LET s == hot.slots_[i] IN
          IF s.level = NULL THEN <<s.price>> ELSE <<s.price, content[s.level]>>],
      hot.live_mask_, hot.anchor_, hot.best_price_,
      [p \in DOMAIN cold |-> content[cold[p]]],
      Len(tiers.free), pc,
      IF TypeOK /\ LevelsAccountedFor /\ NothingHidden THEN <<>> ELSE <<tiers, content>>>>
=============================================================================
