------------------------------ MODULE NetworkScan ------------------------------
(***************************************************************************)
(* The search for networks on the WiFi page: NetworkList                   *)
(* (frontend/src/pages/WiFi/NetworkList.tsx) and the two handlers it calls *)
(* (src/sensesp/net/web/app_command_handler.cpp, wifi_provisioner.cpp).    *)
(*                                                                         *)
(* The page starts a scan when it is shown and every 15 s. Each start that *)
(* is acknowledged begins a chain of questions, one a second, that goes on *)
(* while the device says "SCAN RUNNING". A scan may fail to start, or at   *)
(* any later time; a request may fail. What a scan finds is left out. The  *)
(* driver is modelled as the code uses it.                                 *)
(***************************************************************************)
EXTENDS Naturals

CONSTANTS
    MaxChains,  \* bound on the calls the page waits for at a time
    MaxFailures \* bound on requests and scans that fail, and on scans of others

ASSUME ChainsAssumption == MaxChains \in Nat \ {0} /\ MaxFailures \in Nat

VARIABLES
    scan,       \* of the driver: "none" (also after a failure), "running", "done"
    open,       \* the page is shown
    isScanning, \* its state: the spinner turns
    posts,      \* starts of a scan on their way
    chains,     \* chains of questions that go on
    failures    \* history: the number of these

listVars == <<open, isScanning, posts, chains>>
scanVars == <<scan, listVars, failures>>

ScanTypeOK ==
    /\ scan \in {"none", "running", "done"}
    /\ open \in BOOLEAN /\ isScanning \in BOOLEAN
    /\ posts \in Nat /\ chains \in Nat /\ posts + chains <= MaxChains
    /\ failures \in 0..MaxFailures

ScanInit ==
    /\ scan = "none" /\ open = FALSE /\ isScanning = FALSE
    /\ posts = 0 /\ chains = 0 /\ failures = 0

-----------------------------------------------------------------------------
(* The device. *)

Failure == failures < MaxFailures /\ failures' = failures + 1

\* start_wifi_scan, with WiFi.scanNetworks(true): a scan that runs goes on; the
\* results of the former one are dropped even when the new one does not start.
AfterStart == IF scan = "running" THEN {"running"} ELSE {"running", "none"}

StartWifiScan ==
    /\ scan' \in AfterStart
    /\ IF scan' = "running" THEN UNCHANGED failures ELSE Failure

\* The driver ends a scan; it fails if something else takes over the radio.
ScanEnds ==
    /\ scan = "running" /\ scan' = "done"
    /\ UNCHANGED <<listVars, failures>>

ScanFails ==
    /\ scan = "running" /\ scan' = "none" /\ Failure
    /\ UNCHANGED listVars

\* The page of another browser starts one.
OtherPage ==
    /\ scan' \in AfterStart
    /\ Failure
    /\ UNCHANGED listVars

-----------------------------------------------------------------------------
(* The page. *)

\* A mistake: the interval sees the isScanning of now.
VariantMayStart == ~isScanning

\* The effect runs once: conditionalUpdateNetworks always sees the isScanning of
\* the first rendering, which is false.
MayStart == TRUE

UpdateNetworks ==
    /\ posts + chains < MaxChains
    /\ posts' = posts + 1

OpenPage ==
    /\ ~open
    /\ open' = TRUE
    /\ UpdateNetworks
    /\ UNCHANGED <<scan, isScanning, chains, failures>>

\* What is still on its way changes nothing any more that can be seen.
ClosePage ==
    /\ open
    /\ open' = FALSE /\ isScanning' = FALSE /\ posts' = 0 /\ chains' = 0
    /\ UNCHANGED <<scan, failures>>

\* conditionalUpdateNetworks, every 15 s
IntervalFires ==
    /\ open /\ MayStart
    /\ UpdateNetworks
    /\ UNCHANGED <<scan, open, isScanning, chains, failures>>

\* The POST is answered 202 whether the scan started or not.
Started ==
    /\ posts > 0
    /\ StartWifiScan
    /\ posts' = posts - 1 /\ chains' = chains + 1
    /\ isScanning' = TRUE
    /\ UNCHANGED open

\* It fails before or after the device handled it.
StartLost ==
    /\ posts > 0 /\ Failure
    /\ posts' = posts - 1
    /\ scan' \in {scan} \cup AfterStart
    /\ UNCHANGED <<open, isScanning, chains>>

\* getScannedWiFiNetworks, when the scan is over: the networks are shown.
ResultsShown ==
    /\ chains > 0 /\ scan = "done"
    /\ chains' = chains - 1 /\ isScanning' = FALSE
    /\ UNCHANGED <<scan, open, posts, failures>>

\* "SCAN FAILED": the chain throws, the spinner turns on.
PollRefused ==
    /\ chains > 0 /\ scan = "none"
    /\ chains' = chains - 1
    /\ UNCHANGED <<scan, open, isScanning, posts, failures>>

\* The request fails.
PollLost ==
    /\ chains > 0 /\ Failure
    /\ chains' = chains - 1
    /\ UNCHANGED <<scan, open, isScanning, posts>>

\* What comes by itself: the interval, the answers and the end of a scan.
ScanStep == IntervalFires \/ Started \/ PollRefused \/ ScanEnds \/ ResultsShown

ScanNext ==
    \/ ScanStep
    \/ ScanFails \/ OtherPage \/ OpenPage \/ ClosePage \/ StartLost \/ PollLost

ScanSpec == ScanInit /\ [][ScanNext]_scanVars /\ WF_scanVars(ScanStep)

-----------------------------------------------------------------------------
(* Property. *)

\* The spinner does not turn for ever on a page that stays open. It is the
\* interval that stops it after a failure, and it does so only because its
\* closure is stale: the isScanning it tests was read when the page was shown.
SpinnerStops == isScanning ~> ~isScanning
=============================================================================
