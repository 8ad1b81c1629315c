------------------------------- MODULE CardEdits -------------------------------
(***************************************************************************)
(* A configuration card that is edited and saved: handleSave and the form  *)
(* of ConfigCard (frontend/src/pages/Configuration/ConfigCard.tsx) with    *)
(* the inputs of Form.tsx, against the handler of its PUT                  *)
(* (src/sensesp/net/web/config_handler.cpp).                               *)
(*                                                                         *)
(* Most inputs change config with the input event, which bubbles to the    *)
(* card and marks it as edited. A number input keeps what is typed to      *)
(* itself while it has the focus, and writes what it shows, typed or not,  *)
(* to config when it loses it, which is no event for the card. Enter saves *)
(* from inside it. The inputs stay enabled while a save is on its way. A   *)
(* save whose connection breaks may have been handled, may be handled      *)
(* later, or never. A form is one value; what the device does with it is   *)
(* in ConfigStore.                                                         *)
(***************************************************************************)
CONSTANTS
    Forms,   \* the contents a form may have
    Partial, \* one with a value that is null
    Rounded  \* a form as its number input shows it: toFixed(decimals)

NoPut == "none"
Done == "200"
Refused == "400"
Blurred == "blurred"

\* To round what is rounded changes nothing.
ASSUME FormsAssumption ==
    /\ Partial \notin Forms /\ Forms \cap {NoPut, Done, Refused, Blurred} = {}
    /\ Rounded \in [Forms -> Forms]
    /\ \A f \in Forms : Rounded[Rounded[f]] = Rounded[f]

VARIABLES
    form,      \* config of the card
    field,     \* localValue of the number input that has the focus, or Blurred
    isDirty,   \* of the card: Save is enabled
    isSaving,  \* of the card
    put,       \* the PUT the card waits for: its body, Done, Refused or NoPut
    late,      \* bodies of saves given up that the device may yet handle
    device,    \* what the device uses
    entered,   \* history: the last save left out what was typed in the field ...
    overtaken, \* ... the card was edited while it was on its way ...
    refused,   \* ... the device refused it ...
    crossed,   \* ... an older one was handled after it ...
    elsewhere  \* ... or the device got its configuration from somebody else

exceptions == <<entered, overtaken, refused, crossed, elsewhere>>
cardEditVars ==
    <<form, field, isDirty, isSaving, put, late, device, exceptions>>

CardTypeOK ==
    /\ form \in Forms \cup {Partial} /\ field \in Forms \cup {Blurred}
    /\ device \in Forms /\ late \subseteq Forms
    /\ put \in Forms \cup {NoPut, Done, Refused}
    /\ {isDirty, isSaving, entered, overtaken, refused, crossed, elsewhere}
         \subseteq BOOLEAN
    /\ isSaving = (put # NoPut)

\* What the user sees.
Shown ==
    IF field # Blurred THEN field
    ELSE IF form \in Forms THEN Rounded[form] ELSE form

CardInit ==
    /\ form \in Forms /\ device = form /\ field = Blurred
    /\ isDirty = FALSE /\ isSaving = FALSE /\ put = NoPut /\ late = {}
    /\ entered = FALSE /\ overtaken = FALSE /\ refused = FALSE
    /\ crossed = FALSE /\ elsewhere = FALSE

\* The input event reaches the card.
MarkEdited ==
    /\ isDirty' = TRUE
    /\ overtaken' = (overtaken \/ isSaving)
    /\ UNCHANGED <<isSaving, put, late, device, entered, refused, crossed, elsewhere>>

\* The input event of an input that is no number.
Edit(v) ==
    /\ field = Blurred
    /\ form' = v /\ MarkEdited
    /\ UNCHANGED field

\* onFocus of a number input. A null in the form belongs to another input, which
\* has to be mended first (bound).
Focus ==
    /\ field = Blurred /\ form # Partial
    /\ field' = Shown
    /\ UNCHANGED <<form, isDirty, isSaving, put, late, device, exceptions>>

\* onInput of a number input
Type(v) ==
    /\ field # Blurred
    /\ field' = v /\ MarkEdited
    /\ UNCHANGED form

\* onBlur of a number input
Blur ==
    /\ field # Blurred
    /\ form' = field /\ field' = Blurred
    /\ UNCHANGED <<isDirty, isSaving, put, late, device, exceptions>>

\* handleSave up to its await: the button needs an edit and a valid form. A click
\* on it takes the focus from the input first; Enter does not.
HandleSave ==
    /\ isDirty /\ ~isSaving /\ form # Partial
    /\ isSaving' = TRUE /\ put' = form
    /\ entered' = (Shown # Rounded[form])
    /\ overtaken' = FALSE /\ refused' = FALSE
    /\ UNCHANGED <<form, field, isDirty, late, device, crossed, elsewhere>>

\* The handler of the PUT: from_json takes the body or refuses it.
Handled ==
    /\ put \in Forms
    /\ \/ /\ device' = put /\ put' = Done
          /\ crossed' = FALSE /\ elsewhere' = FALSE
       \/ /\ put' = Refused
          /\ UNCHANGED <<device, crossed, elsewhere>>
    /\ UNCHANGED <<form, field, isDirty, isSaving, late, entered, overtaken, refused>>

\* The answer is there: the form counts as saved, whatever it says.
Answered ==
    /\ put \in {Done, Refused}
    /\ isDirty' = FALSE /\ isSaving' = FALSE /\ put' = NoPut
    /\ refused' = (put = Refused)
    /\ UNCHANGED <<form, field, late, device, entered, overtaken, crossed, elsewhere>>

\* A mistake: the finally of a save that failed makes the form clean.
VariantStaysDirty == FALSE

\* The catch of handleSave leaves isDirty as it is.
StaysDirty == isDirty

\* The connection breaks, before or after the device handled the PUT.
ConnectionBreaks ==
    /\ isSaving
    /\ isSaving' = FALSE /\ put' = NoPut
    /\ isDirty' = StaysDirty
    /\ late' = IF put \in Forms THEN late \cup {put} ELSE late
    /\ UNCHANGED <<form, field, device, exceptions>>

\* The device handles a PUT whose connection the browser has given up.
LateHandled ==
    /\ \E body \in late : device' = body /\ late' = late \ {body}
    /\ crossed' = TRUE
    /\ UNCHANGED <<form, field, isDirty, isSaving, put, entered, overtaken, refused,
                   elsewhere>>

\* Another page saves, or the device changes its configuration itself. The card
\* does not ask again.
ChangesElsewhere(v) ==
    /\ device' = v /\ elsewhere' = TRUE
    /\ UNCHANGED <<form, field, isDirty, isSaving, put, late, entered, overtaken,
                   refused, crossed>>

CardNext ==
    \/ \E v \in Forms \cup {Partial} : Edit(v)
    \/ \E v \in Forms : Type(v) \/ ChangesElsewhere(v)
    \/ Focus \/ Blur
    \/ HandleSave \/ Handled \/ Answered \/ ConnectionBreaks \/ LateHandled

CardSpec == CardInit /\ [][CardNext]_cardEditVars

-----------------------------------------------------------------------------
(* Property. *)

\* A card with Save disabled shows what the device uses, to the digits it shows
\* (a visit to a number input, without an edit, rounds config to them but leaves
\* the card as it looks), with five exceptions the code has. Enter in a number
\* input saves the form without what was typed in it, and then counts it as
\* saved; so does an answer an edit that was made while the save was on its way;
\* a save the device refused counts as one too (a message says so, but the edit
\* cannot be saved without another); the device handles an older save late, which
\* the browser has given up; and somebody else changes what the device uses.
CleanCardTrue ==
    ~isDirty /\ ~isSaving =>
        \/ Shown = Rounded[device]
        \/ entered \/ overtaken \/ refused \/ crossed \/ elsewhere
=============================================================================
