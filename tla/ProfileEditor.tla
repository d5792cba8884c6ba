--------------------------- MODULE ProfileEditor ---------------------------
(***************************************************************************)
(* The two screens on which a profile is put together: ProfileCreationView *)
(* (a wizard of six steps, photos on the first and interests on the last)  *)
(* and EditProfileView (everything on one page), with the ImagePicker both *)
(* present as a sheet.                                                     *)
(*                                                                         *)
(* A picked photo arrives later: the picker closes at once, loads the      *)
(* image in the background and assigns it to the slot its binding was made *)
(* for.  Meanwhile the user goes on: other slots, the same slot again,     *)
(* other steps, leaving the screen and coming back.  The text fields are   *)
(* left out: nothing reads them.                                           *)
(***************************************************************************)
EXTENDS Integers, Sequences, FiniteSets

CONSTANTS
  Slots,         \* indices of the photo array
  LastStep,      \* steps.count - 1
  Interests,     \* the interests offered
  InitInterests, \* the ones EditProfileView starts with
  MaxInterests,  \* how many may be selected
  MaxPicks,      \* bound: photos picked while a screen is open
  None           \* no photo, no selected slot

ASSUME StepsAssumption == LastStep \in Nat /\ MaxPicks \in Nat /\ MaxInterests \in Nat

ASSUME InterestsAssumption ==
  /\ IsFiniteSet(Interests)
  /\ InitInterests \subseteq Interests
  /\ Cardinality(InitInterests) <= MaxInterests

ASSUME NoneAssumption == None \notin Slots /\ None \notin Nat

VARIABLES
  screen,             \* which screen is shown
  currentStep,        \* the wizard's step
  photos,             \* the pick each slot shows
  selectedPhotoIndex, \* the slot tapped last
  showImagePicker,    \* the picker covers the screen
  selectedInterests,  \* the interests selected
  loads,              \* images being loaded; live while their screen is there
  picked              \* history: the slot of every pick on this screen

vars == <<screen, currentStep, photos, selectedPhotoIndex, showImagePicker,
          selectedInterests, loads, picked>>
-----------------------------------------------------------------------------
NoPhotos == [s \in Slots |-> None]
Loads == [n : 1..MaxPicks, slot : Slots, live : BOOLEAN]

Init ==
  /\ screen = "none"
  /\ currentStep = 0
  /\ photos = NoPhotos
  /\ selectedPhotoIndex = None
  /\ showImagePicker = FALSE
  /\ selectedInterests = {}
  /\ loads = {}
  /\ picked = <<>>

\* A screen opens with the initial values of its @State.
Open(new, interests) ==
  /\ screen = "none"
  /\ screen' = new
  /\ selectedInterests' = interests
  /\ UNCHANGED <<currentStep, photos, selectedPhotoIndex, showImagePicker, loads, picked>>

OpenCreation == Open("creation", {})
OpenEdit == Open("edit", InitInterests)

\* The screen is dismissed and its @State goes with it: Cancel, Save and
\* Complete do the same.  The loads it started go on.
Dismiss ==
  /\ screen' = "none"
  /\ currentStep' = 0
  /\ photos' = NoPhotos
  /\ selectedPhotoIndex' = None
  /\ selectedInterests' = {}
  /\ loads' = {[l EXCEPT !.live = FALSE] : l \in loads}
  /\ picked' = <<>>
  /\ UNCHANGED showImagePicker

\* The controls of a screen, when the picker does not cover it.
Shown(s) == screen = s /\ ~showImagePicker

Cancel == (Shown("creation") \/ Shown("edit")) /\ Dismiss
Save == Shown("edit") /\ Dismiss
-----------------------------------------------------------------------------
(* The wizard's buttons.                                                   *)
MoveTo(step) ==
  /\ currentStep' = step
  /\ UNCHANGED <<screen, photos, selectedPhotoIndex, showImagePicker,
                 selectedInterests, loads, picked>>

Back == Shown("creation") /\ currentStep > 0 /\ MoveTo(currentStep - 1)

\* Mutant of NextStep: the wizard goes past its last step.
NextStepPastEnd == Shown("creation") /\ currentStep <= LastStep /\ MoveTo(currentStep + 1)

NextStep == Shown("creation") /\ currentStep < LastStep /\ MoveTo(currentStep + 1)
Complete == Shown("creation") /\ currentStep = LastStep /\ Dismiss

\* Both screens have the same rule for a tap on an interest.
ToggleInterest(i) ==
  /\ i \in selectedInterests \/ Cardinality(selectedInterests) < MaxInterests
  /\ selectedInterests' = IF i \in selectedInterests
                          THEN selectedInterests \ {i} ELSE selectedInterests \cup {i}
  /\ UNCHANGED <<screen, currentStep, photos, selectedPhotoIndex, showImagePicker,
                 loads, picked>>

ToggleInCreation(i) ==
  Shown("creation") /\ currentStep = LastStep /\ ToggleInterest(i)
ToggleInEdit(i) == Shown("edit") /\ ToggleInterest(i)
-----------------------------------------------------------------------------
(* The photo grid and the picker.                                          *)
TapCell(s) ==
  /\ selectedPhotoIndex' = s
  /\ showImagePicker' = TRUE
  /\ UNCHANGED <<screen, currentStep, photos, selectedInterests, loads, picked>>

TapInCreation(s) == Shown("creation") /\ currentStep = 0 /\ TapCell(s)
TapInEdit(s) == Shown("edit") /\ TapCell(s)

\* didFinishPicking without a result, or with one that is not an image.
PickNothing ==
  /\ showImagePicker
  /\ showImagePicker' = FALSE
  /\ UNCHANGED <<screen, currentStep, photos, selectedPhotoIndex, selectedInterests,
                 loads, picked>>

\* didFinishPicking with an image: the picker goes, the load begins.  Its
\* coordinator keeps the binding the sheet was made with.
PickPhoto ==
  /\ showImagePicker
  /\ Len(picked) < MaxPicks
  /\ showImagePicker' = FALSE
  /\ picked' = Append(picked, selectedPhotoIndex)
  /\ loads' = loads \cup {[n |-> Len(picked) + 1, slot |-> selectedPhotoIndex,
                           live |-> TRUE]}
  /\ UNCHANGED <<screen, currentStep, photos, selectedPhotoIndex, selectedInterests>>

\* Mutant of Land: the image goes to the slot that is selected by now.
LandOnSelected(l, image) ==
  /\ loads' = loads \ {l}
  /\ photos' = IF l.live /\ selectedPhotoIndex # None
               THEN [photos EXCEPT ![selectedPhotoIndex] = image] ELSE photos
  /\ UNCHANGED <<screen, currentStep, selectedPhotoIndex, showImagePicker,
                 selectedInterests, picked>>

\* Mutant of Land: the photos outlive their screen.
LandAnyway(l, image) ==
  /\ loads' = loads \ {l}
  /\ photos' = [photos EXCEPT ![l.slot] = image]
  /\ UNCHANGED <<screen, currentStep, selectedPhotoIndex, showImagePicker,
                 selectedInterests, picked>>

(* The completion of loadObject, on the main queue: image is None when the *)
(* load failed.  On a screen that is gone it has no effect.                *)
Land(l, image) ==
  /\ loads' = loads \ {l}
  /\ photos' = IF l.live THEN [photos EXCEPT ![l.slot] = image] ELSE photos
  /\ UNCHANGED <<screen, currentStep, selectedPhotoIndex, showImagePicker,
                 selectedInterests, picked>>

Loaded(l) == l \in loads /\ Land(l, l.n)
LoadFails(l) == l \in loads /\ Land(l, None)
-----------------------------------------------------------------------------
Next ==
  \/ OpenCreation
  \/ OpenEdit
  \/ Cancel
  \/ Save
  \/ Back
  \/ NextStep
  \/ Complete
  \/ \E i \in Interests : ToggleInCreation(i) \/ ToggleInEdit(i)
  \/ \E s \in Slots : TapInCreation(s) \/ TapInEdit(s)
  \/ PickNothing
  \/ PickPhoto
  \/ \E l \in loads : Loaded(l) \/ LoadFails(l)

Spec == Init /\ [][Next]_vars
-----------------------------------------------------------------------------
(* Every variable has its type: the step is an index of steps              *)
(* (ProfileCreationView.swift:37), the picker is only shown for a slot     *)
(* (lines 110-114), and never more interests are selected than allowed     *)
(* (lines 399-403).                                                        *)
TypeOK ==
  /\ screen \in {"none", "creation", "edit"}
  /\ currentStep \in 0..LastStep
  /\ photos \in [Slots -> (1..MaxPicks) \cup {None}]
  /\ selectedPhotoIndex \in Slots \cup {None}
  /\ showImagePicker \in BOOLEAN
  /\ showImagePicker => selectedPhotoIndex # None /\ screen # "none"
  /\ selectedInterests \subseteq Interests
  /\ Cardinality(selectedInterests) <= MaxInterests
  /\ loads \subseteq Loads
  /\ picked \in Seq(Slots)
  /\ Len(picked) <= MaxPicks

(* Whatever order loads end in, a photo appears only in the slot it was    *)
(* picked for, and only on the screen it was picked on                     *)
(* (SharedComponents.swift:110-121).                                       *)
ShownWherePicked ==
  \A s \in Slots :
    photos[s] # None => photos[s] \in DOMAIN picked /\ picked[photos[s]] = s

Loading(n) == \E l \in loads : l.live /\ l.n = n

(* A photo that has arrived stays until its screen goes away or another    *)
(* pick for the same slot ends: what happens to other slots, other steps   *)
(* and other screens does not disturb it (SharedComponents.swift:116-119). *)
PhotosStay ==
  [][\A s \in Slots :
       photos[s] # None /\ photos'[s] # photos[s] =>
         \/ screen' = "none"
         \/ \E n \in DOMAIN picked :
              n # photos[s] /\ picked[n] = s /\ Loading(n)]_vars
=============================================================================
