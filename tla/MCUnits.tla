------------------------------ MODULE MCUnits ------------------------------
(***************************************************************************)
(* The parts of a device that work by themselves, checked one at a time:   *)
(* the value of "unit", chosen in the initial state, says which one takes  *)
(* steps; the variables of the others keep their initial values.           *)
(***************************************************************************)
EXTENDS Button, TimedTransforms, Streams, PinInputs, AsyncResponse,
        ConfigStore, LogBuffer, RequestQueue, StatusLed, CardEdits, NetworkScan,
        DigestNonces

CONSTANT f1, f2, typed

MCReadings == {-2, 0, 1, 4}
MCMinAngle == -1
MCCurves == {{<<0, 0>>, <<3, 6>>}, {<<-1, 2>>, <<1, 1>>, <<3, 5>>}}
MCPatterns == {<<1, 2>>, <<2, 1, 3>>}
MCBlip == <<1, 1>>
\* A number typed with more digits than its input shows.
MCRounded == f1 :> f1 @@ f2 :> f2 @@ typed :> f1

VARIABLE unit

boardVars ==
    <<buttonVars, timedVars, streamVars, pinVars, replyVars, storeVars, logVars,
      ledVars, nonceVars>>
browserVars == <<slotVars, cardEditVars, scanVars>>
vars == <<unit, boardVars, browserVars>>

Units ==
    {"button", "timed", "streams", "pins", "reply", "store", "log", "led",
     "auth", "slots", "card", "scan"}

\* The parts that do not move start in one state. The authenticator's clock has
\* time to pass the largest long and to wrap.
Init ==
    /\ unit \in Units
    /\ ButtonInit /\ TimedInit /\ StreamsInit /\ PinInit /\ ReplyInit
    /\ StoreInit /\ LogInit /\ LedInit /\ NoncesInit
    /\ SlotInit /\ CardInit /\ ScanInit
    /\ unit # "pins" => level
    /\ unit # "store" => disk = [n \in Names |-> Missing]
    /\ unit # "led" => millis = 0 /\ pattern = CHOOSE p \in Patterns : TRUE
    /\ unit # "card" => form = CHOOSE f \in Forms : TRUE
    /\ uptime = IF unit = "auth" THEN 1 ELSE 0

ButtonStep ==
    /\ unit = "button" /\ ButtonNext
    /\ UNCHANGED <<unit, timedVars, streamVars, pinVars, replyVars, storeVars,
                   logVars, ledVars, nonceVars, browserVars>>

TimedStep ==
    /\ unit = "timed" /\ TimedNext
    /\ UNCHANGED <<unit, buttonVars, streamVars, pinVars, replyVars, storeVars,
                   logVars, ledVars, nonceVars, browserVars>>

StreamsStep ==
    /\ unit = "streams" /\ StreamsNext
    /\ UNCHANGED <<unit, buttonVars, timedVars, pinVars, replyVars, storeVars,
                   logVars, ledVars, nonceVars, browserVars>>

PinStep ==
    /\ unit = "pins" /\ PinNext
    /\ UNCHANGED <<unit, buttonVars, timedVars, streamVars, replyVars,
                   storeVars, logVars, ledVars, nonceVars, browserVars>>

ReplyStep ==
    /\ unit = "reply" /\ ReplyNext
    /\ UNCHANGED <<unit, buttonVars, timedVars, streamVars, pinVars, storeVars,
                   logVars, ledVars, nonceVars, browserVars>>

StoreStep ==
    /\ unit = "store" /\ StoreNext
    /\ UNCHANGED <<unit, buttonVars, timedVars, streamVars, pinVars, replyVars,
                   logVars, ledVars, nonceVars, browserVars>>

LogStep ==
    /\ unit = "log" /\ LogNext
    /\ UNCHANGED <<unit, buttonVars, timedVars, streamVars, pinVars, replyVars,
                   storeVars, ledVars, nonceVars, browserVars>>

LedStep ==
    /\ unit = "led" /\ LedNext
    /\ UNCHANGED <<unit, buttonVars, timedVars, streamVars, pinVars, replyVars,
                   storeVars, logVars, nonceVars, browserVars>>

AuthStep ==
    /\ unit = "auth" /\ NoncesNext
    /\ UNCHANGED <<unit, buttonVars, timedVars, streamVars, pinVars, replyVars,
                   storeVars, logVars, ledVars, browserVars>>

CardStep ==
    /\ unit = "card" /\ CardNext
    /\ UNCHANGED <<unit, boardVars, slotVars, scanVars>>

Slots(A) ==
    unit = "slots" /\ A /\ UNCHANGED <<unit, boardVars, cardEditVars, scanVars>>
Scan(A) ==
    unit = "scan" /\ A /\ UNCHANGED <<unit, boardVars, slotVars, cardEditVars>>

Next ==
    \/ ButtonStep \/ TimedStep \/ StreamsStep \/ PinStep \/ ReplyStep
    \/ StoreStep \/ LogStep \/ LedStep \/ AuthStep \/ CardStep
    \/ Slots(SlotNext) \/ Scan(ScanNext)

Fairness ==
    /\ \A c \in Cards : WF_vars(Slots(CallStep(c)))
    /\ WF_vars(Scan(ScanStep))

Spec == Init /\ [][Next]_vars /\ Fairness

\* Every variable of every part keeps its type.
TypeOK ==
    /\ ButtonTypeOK /\ TimedTypeOK /\ StreamsTypeOK /\ PinTypeOK /\ ReplyTypeOK
    /\ StoreTypeOK /\ LogTypeOK /\ LedTypeOK /\ NonceTypeOK
    /\ SlotTypeOK /\ CardTypeOK /\ ScanTypeOK

\* What the transforms, the pulse counter, the response handler, the status LED
\* and the authenticator promise of the values and the times they keep: the
\* properties of TimedTransforms, Streams, PinInputs, AsyncResponse, StatusLed
\* and DigestNonces.
TransformsSound ==
    /\ TimedSound /\ StreamsSound /\ PulsesKept /\ OneReply /\ LedSound
    /\ NoncesServe

\* The web pages: the slots of the request queue are counted right, and every
\* card gets one in the end (SlotsCounted and CardsEnd of RequestQueue); a card
\* that is not marked as edited shows what the device uses, but for five
\* exceptions (CleanCardTrue of CardEdits); the search for networks ends
\* (SpinnerStops of NetworkScan).
PagesServed == []SlotsCounted /\ CardsEnd /\ []CleanCardTrue /\ SpinnerStops
=============================================================================
