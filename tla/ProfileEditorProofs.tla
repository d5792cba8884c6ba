------------------------ MODULE ProfileEditorProofs ------------------------
(***************************************************************************)
(* Theorems about ProfileEditor, for any grid of photos, any wizard and    *)
(* any number of picks.                                                    *)
(*                                                                         *)
(* ShownWherePicked speaks of photos that have arrived.  The proof needs   *)
(* the same of the images still on their way: a load whose screen is there *)
(* was picked on this screen and for the slot it will land in.             *)
(***************************************************************************)
EXTENDS ProfileEditor, FiniteSetTheorems, TLAPS

\* A live load is one of this screen's picks and goes to its slot.
LoadsGoWherePicked ==
  \A l \in loads : l.live => l.n \in DOMAIN picked /\ picked[l.n] = l.slot

\* What has arrived is not on its way any more.
ArriveOnce == \A l \in loads, s \in Slots : l.live => photos[s] # l.n

IInv == TypeOK /\ ShownWherePicked /\ LoadsGoWherePicked /\ ArriveOnce

(* A tap on an interest keeps the selection within its limit: the guard    *)
(* counts before it adds (ProfileCreationView.swift:399-403).              *)
LEMMA InterestsBounded ==
  ASSUME TypeOK, NEW i \in Interests, ToggleInterest(i)
  PROVE  /\ selectedInterests' \subseteq Interests
         /\ Cardinality(selectedInterests') <= MaxInterests
<1>1. IsFiniteSet(selectedInterests)
  BY FS_Subset, InterestsAssumption DEF TypeOK
<1>2. Cardinality(selectedInterests) \in Nat /\ MaxInterests \in Nat
  BY <1>1, FS_CardinalityType, StepsAssumption
<1>3. CASE i \in selectedInterests
  <2>1. Cardinality(selectedInterests \ {i}) = Cardinality(selectedInterests) - 1
    BY <1>1, <1>3, FS_RemoveElement
  <2> QED BY <1>2, <1>3, <2>1 DEF ToggleInterest, TypeOK
<1>4. CASE i \notin selectedInterests
  <2>1. Cardinality(selectedInterests \cup {i}) = Cardinality(selectedInterests) + 1
    BY <1>1, <1>4, FS_AddElement
  <2> QED BY <1>2, <1>4, <2>1 DEF ToggleInterest, TypeOK
<1> QED BY <1>3, <1>4

(* A tap on an interest.                                                   *)
LEMMA ToggleKeepsTypeOK ==
  ASSUME TypeOK, NEW i \in Interests, ToggleInterest(i)
  PROVE  TypeOK'
BY InterestsBounded DEF ToggleInterest, TypeOK

(* A screen goes, and its loads are nobody's any more.                     *)
LEMMA DismissKeepsTypeOK ==
  ASSUME TypeOK, ~showImagePicker, Dismiss
  PROVE  TypeOK'
<1>1. Cardinality({}) <= MaxInterests
  BY FS_EmptySet, StepsAssumption
<1>2. loads' \subseteq Loads
  BY DEF Dismiss, TypeOK, Loads
<1>3. photos' \in [Slots -> (1..MaxPicks) \cup {None}]
  BY DEF Dismiss, NoPhotos
<1> QED BY <1>1, <1>2, <1>3, StepsAssumption DEF Dismiss, TypeOK

(* An image arrives, or fails to.                                          *)
LEMMA LandKeepsTypeOK ==
  ASSUME TypeOK, NEW l \in loads, NEW image \in {l.n, None}, Land(l, image)
  PROVE  TypeOK'
<1>1. l.n \in 1..MaxPicks /\ l.slot \in Slots
  BY DEF TypeOK, Loads
<1>2. photos' \in [Slots -> (1..MaxPicks) \cup {None}]
  BY <1>1 DEF Land, TypeOK
<1> QED BY <1>2 DEF Land, TypeOK

(* A pick is numbered and starts a load.                                   *)
LEMMA PickKeepsTypeOK ==
  ASSUME TypeOK, PickPhoto
  PROVE  TypeOK'
<1>1. selectedPhotoIndex \in Slots /\ Len(picked) \in Nat /\ MaxPicks \in Nat
  BY StepsAssumption DEF TypeOK, PickPhoto
<1>2. picked' \in Seq(Slots) /\ Len(picked') = Len(picked) + 1
  BY <1>1 DEF TypeOK, PickPhoto
<1>3. Len(picked) + 1 \in 1..MaxPicks
  BY <1>1 DEF PickPhoto
<1>4. [n |-> Len(picked) + 1, slot |-> selectedPhotoIndex, live |-> TRUE] \in Loads
  BY <1>1, <1>3 DEF Loads
<1>5. loads' \subseteq Loads
  BY <1>4 DEF TypeOK, PickPhoto
<1>6. Len(picked') <= MaxPicks
  BY <1>1, <1>2, <1>3
<1> QED BY <1>2, <1>5, <1>6 DEF TypeOK, PickPhoto

(* Every step keeps the type.                                              *)
LEMMA NextKeepsTypeOK == TypeOK /\ [Next]_vars => TypeOK'
<1> SUFFICES ASSUME TypeOK, [Next]_vars PROVE TypeOK'
  OBVIOUS
<1>1. CASE OpenCreation
  <2>1. Cardinality({}) <= MaxInterests
    BY FS_EmptySet, StepsAssumption
  <2> QED BY <1>1, <2>1 DEF OpenCreation, Open, TypeOK
<1>2. CASE OpenEdit
  BY <1>2, InterestsAssumption DEF OpenEdit, Open, TypeOK
<1>3. CASE Cancel \/ Save \/ Complete
  BY <1>3, DismissKeepsTypeOK DEF Cancel, Save, Complete, Shown
<1>4. CASE Back \/ NextStep
  BY <1>4, StepsAssumption DEF Back, NextStep, MoveTo, TypeOK
<1>5. CASE \E i \in Interests : ToggleInCreation(i) \/ ToggleInEdit(i)
  BY <1>5, ToggleKeepsTypeOK DEF ToggleInCreation, ToggleInEdit
<1>6. CASE \E s \in Slots : TapInCreation(s) \/ TapInEdit(s)
  BY <1>6, NoneAssumption DEF TapInCreation, TapInEdit, TapCell, Shown, TypeOK
<1>7. CASE PickNothing
  BY <1>7 DEF PickNothing, TypeOK
<1>8. CASE PickPhoto
  BY <1>8, PickKeepsTypeOK
<1>9. CASE \E l \in loads : Loaded(l) \/ LoadFails(l)
  BY <1>9, LandKeepsTypeOK DEF Loaded, LoadFails
<1>10. CASE UNCHANGED vars
  BY <1>10 DEF vars, TypeOK
<1> QED BY <1>1, <1>2, <1>3, <1>4, <1>5, <1>6, <1>7, <1>8, <1>9, <1>10 DEF Next

(* No screen is shown at first.                                            *)
LEMMA InitTypeOK == Init => TypeOK
<1>1. Cardinality({}) <= MaxInterests
  BY FS_EmptySet, StepsAssumption
<1>2. Len(<<>>) <= MaxPicks /\ <<>> \in Seq(Slots) /\ 0 \in 0..LastStep
  BY StepsAssumption
<1>3. NoPhotos \in [Slots -> (1..MaxPicks) \cup {None}]
  BY DEF NoPhotos
<1> QED BY <1>1, <1>2, <1>3 DEF Init, TypeOK

(* The type of the state: the wizard's step is one of its steps, the       *)
(* picker is shown for a slot of an open screen only, and at most          *)
(* MaxInterests interests are selected (ProfileCreationView.swift:37,      *)
(* 110-114, 399-403).                                                      *)
THEOREM TypesHold == Spec => []TypeOK
BY InitTypeOK, NextKeepsTypeOK, PTL DEF Spec
-----------------------------------------------------------------------------
(* The image that lands was picked for the slot it lands in, and no other  *)
(* load of this screen carries the same pick.                              *)
LEMMA LandKeepsShown ==
  ASSUME IInv, NEW l \in loads, NEW image \in {l.n, None}, Land(l, image)
  PROVE  ShownWherePicked' /\ LoadsGoWherePicked' /\ ArriveOnce'
<1>0. /\ photos \in [Slots -> (1..MaxPicks) \cup {None}]
      /\ loads \subseteq Loads /\ l \in Loads /\ l.slot \in Slots /\ l.n \in 1..MaxPicks
      /\ picked' = picked /\ loads' = loads \ {l} /\ None # l.n
  BY NoneAssumption DEF IInv, TypeOK, Loads, Land
<1>1. LoadsGoWherePicked'
  BY <1>0 DEF IInv, LoadsGoWherePicked
<1>2. CASE ~l.live
  <2>1. photos' = photos
    BY <1>2 DEF Land
  <2> QED BY <1>0, <1>1, <2>1 DEF IInv, ShownWherePicked, ArriveOnce
<1>3. CASE l.live
  <2>1. \A s \in Slots : photos'[s] = IF s = l.slot THEN image ELSE photos[s]
    BY <1>0, <1>3 DEF Land
  <2>2. l.n \in DOMAIN picked /\ picked[l.n] = l.slot
    BY <1>3 DEF IInv, LoadsGoWherePicked
  <2>3. ShownWherePicked'
    BY <1>0, <2>1, <2>2 DEF IInv, ShownWherePicked
  <2>4. ASSUME NEW k \in loads', NEW s \in Slots, k.live
        PROVE  photos'[s] # k.n
    <3>1. k \in Loads /\ k \in loads /\ k # l /\ k.n \in 1..MaxPicks
      BY <1>0 DEF Loads
    <3>2. picked[k.n] = k.slot
      BY <2>4, <3>1 DEF IInv, LoadsGoWherePicked
    <3>3. k.n # l.n
      BY <1>0, <1>3, <2>2, <2>4, <3>1, <3>2 DEF Loads
    <3>4. photos[s] # k.n
      BY <2>4, <3>1 DEF IInv, ArriveOnce
    <3> QED BY <2>1, <3>1, <3>3, <3>4, NoneAssumption
  <2> QED BY <1>1, <2>3, <2>4 DEF ArriveOnce
<1> QED BY <1>2, <1>3

(* A new load is for the slot that was tapped, and has not arrived.        *)
LEMMA PickKeepsShown ==
  ASSUME IInv, PickPhoto
  PROVE  ShownWherePicked' /\ LoadsGoWherePicked' /\ ArriveOnce'
<1> DEFINE new == [n |-> Len(picked) + 1, slot |-> selectedPhotoIndex, live |-> TRUE]
<1>0. /\ picked \in Seq(Slots) /\ selectedPhotoIndex \in Slots
      /\ photos' = photos /\ loads' = loads \cup {new}
      /\ picked' = Append(picked, selectedPhotoIndex)
  BY DEF IInv, TypeOK, PickPhoto
<1>1. /\ DOMAIN picked' = 1..(Len(picked) + 1) /\ DOMAIN picked = 1..Len(picked)
      /\ picked'[Len(picked) + 1] = selectedPhotoIndex /\ Len(picked) \in Nat
      /\ \A i \in DOMAIN picked : picked'[i] = picked[i] /\ i \in DOMAIN picked'
  BY <1>0
<1>2. ShownWherePicked'
  BY <1>0, <1>1 DEF IInv, ShownWherePicked
<1>3. LoadsGoWherePicked'
  BY <1>0, <1>1 DEF IInv, LoadsGoWherePicked
<1>4. \A s \in Slots : photos[s] # new.n
  <2> TAKE s \in Slots
  <2>1. new.n \notin DOMAIN picked /\ new.n \in Nat
    BY <1>1
  <2>2. photos[s] = None \/ photos[s] \in DOMAIN picked
    BY DEF IInv, ShownWherePicked
  <2> QED BY <2>1, <2>2, NoneAssumption
<1>5. ArriveOnce'
  BY <1>0, <1>4 DEF IInv, ArriveOnce
<1> QED BY <1>2, <1>3, <1>5

(* A screen that goes leaves no photo and no live load.                    *)
LEMMA DismissKeepsShown ==
  ASSUME IInv, Dismiss
  PROVE  ShownWherePicked' /\ LoadsGoWherePicked' /\ ArriveOnce'
<1>1. \A s \in Slots : photos'[s] = None
  BY DEF Dismiss, NoPhotos
<1>2. \A l \in loads' : ~l.live
  BY DEF Dismiss, IInv, TypeOK, Loads
<1> QED BY <1>1, <1>2 DEF ShownWherePicked, LoadsGoWherePicked, ArriveOnce

(* The other steps touch neither photos nor loads.                         *)
LEMMA OthersKeepShown ==
  ASSUME IInv, UNCHANGED <<photos, loads, picked>>
  PROVE  ShownWherePicked' /\ LoadsGoWherePicked' /\ ArriveOnce'
BY DEF IInv, ShownWherePicked, LoadsGoWherePicked, ArriveOnce

(* Every step keeps the invariant.                                         *)
LEMMA NextKeepsIInv == IInv /\ [Next]_vars => IInv'
<1> SUFFICES ASSUME IInv, [Next]_vars
             PROVE  ShownWherePicked' /\ LoadsGoWherePicked' /\ ArriveOnce'
  BY NextKeepsTypeOK DEF IInv
<1>1. CASE OpenCreation \/ OpenEdit
  BY <1>1, OthersKeepShown DEF OpenCreation, OpenEdit, Open
<1>2. CASE Cancel \/ Save \/ Complete
  BY <1>2, DismissKeepsShown DEF Cancel, Save, Complete
<1>3. CASE Back \/ NextStep
  BY <1>3, OthersKeepShown DEF Back, NextStep, MoveTo
<1>4. CASE \E i \in Interests : ToggleInCreation(i) \/ ToggleInEdit(i)
  BY <1>4, OthersKeepShown DEF ToggleInCreation, ToggleInEdit, ToggleInterest
<1>5. CASE \E s \in Slots : TapInCreation(s) \/ TapInEdit(s)
  BY <1>5, OthersKeepShown DEF TapInCreation, TapInEdit, TapCell
<1>6. CASE PickNothing
  BY <1>6, OthersKeepShown DEF PickNothing
<1>7. CASE PickPhoto
  BY <1>7, PickKeepsShown
<1>8. CASE \E l \in loads : Loaded(l) \/ LoadFails(l)
  BY <1>8, LandKeepsShown DEF Loaded, LoadFails
<1>9. CASE UNCHANGED vars
  BY <1>9, OthersKeepShown DEF vars
<1> QED BY <1>1, <1>2, <1>3, <1>4, <1>5, <1>6, <1>7, <1>8, <1>9 DEF Next

(* There is no photo at first.                                             *)
LEMMA InitIInv == Init => IInv
BY InitTypeOK DEF Init, IInv, NoPhotos, ShownWherePicked, LoadsGoWherePicked, ArriveOnce

(* So it holds in every reachable state.                                   *)
LEMMA IInvHolds == Spec => []IInv
BY InitIInv, NextKeepsIInv, PTL DEF Spec

(* Whatever order loads end in, a photo appears only in the slot it was    *)
(* picked for, and only on the screen it was picked on                     *)
(* (SharedComponents.swift:110-121).                                       *)
THEOREM PhotosAppearWherePicked == Spec => []ShownWherePicked
<1>1. IInv => ShownWherePicked
  BY DEF IInv
<1> QED BY <1>1, IInvHolds, PTL
-----------------------------------------------------------------------------
(* A photo that has arrived is replaced only by another pick for the same  *)
(* slot, or goes with its screen (SharedComponents.swift:116-119).         *)
THEOREM ArrivedPhotosStay == Spec => PhotosStay
<1> DEFINE Stays(s) ==
             photos[s] # None /\ photos'[s] # photos[s] =>
               \/ screen' = "none"
               \/ \E n \in DOMAIN picked :
                    n # photos[s] /\ picked[n] = s /\ Loading(n)
<1>1. IInv /\ [Next]_vars => [\A s \in Slots : Stays(s)]_vars
  <2> SUFFICES ASSUME IInv, Next, NEW s \in Slots,
                      photos[s] # None, photos'[s] # photos[s], screen' # "none"
               PROVE  \E n \in DOMAIN picked :
                        n # photos[s] /\ picked[n] = s /\ Loading(n)
    OBVIOUS
  <2>1. PICK l \in loads : Loaded(l) \/ LoadFails(l)
    BY DEF Next, OpenCreation, OpenEdit, Open, Cancel, Save, Complete, Dismiss, Back,
           NextStep, MoveTo, ToggleInCreation, ToggleInEdit, ToggleInterest,
           TapInCreation, TapInEdit, TapCell, PickNothing, PickPhoto
  <2>2. l.live /\ l.slot = s
    BY <2>1 DEF IInv, TypeOK, Loads, Loaded, LoadFails, Land
  <2>3. l.n \in DOMAIN picked /\ picked[l.n] = s
    BY <2>2 DEF IInv, LoadsGoWherePicked
  <2>4. l.n # photos[s]
    BY <2>2 DEF IInv, ArriveOnce
  <2> QED BY <2>2, <2>3, <2>4 DEF Loading
<1> QED BY <1>1, IInvHolds, PTL DEF Spec, PhotosStay
=============================================================================
