------------------------------ MODULE MCCamera ------------------------------
(***************************************************************************)
(* The connection to a camera, its process, its settings, its events and   *)
(* the rows of all cameras, side by side.                                  *)
(***************************************************************************)
EXTENDS IpcConn, CameraProcess, EventDelivery, CameraSettings, Catalogue

VARIABLE part

cameraVars == <<part, connVars, processVars, deliveryVars, settingsVars, catalogueVars>>

Init ==
  /\ part \in {"conn", "process", "delivery", "settings", "catalogue"}
  /\ ConnInit /\ ProcessInit /\ DeliveryInit /\ SettingsInit /\ CatalogueInit
  /\ part # "catalogue" => issued = 0

ConnPart     == part = "conn" /\ ConnNext
                /\ UNCHANGED <<part, processVars, deliveryVars, settingsVars, catalogueVars>>
ProcessPart  == part = "process" /\ ProcessNext
                /\ UNCHANGED <<part, connVars, deliveryVars, settingsVars, catalogueVars>>
DeliveryPart == part = "delivery" /\ DeliveryNext
                /\ UNCHANGED <<part, connVars, processVars, settingsVars, catalogueVars>>
SettingsPart == part = "settings" /\ SettingsNext
                /\ UNCHANGED <<part, connVars, processVars, deliveryVars, catalogueVars>>
CataloguePart == part = "catalogue" /\ CatalogueNext
                /\ UNCHANGED <<part, connVars, processVars, deliveryVars, settingsVars>>

Next == ConnPart \/ ProcessPart \/ DeliveryPart \/ SettingsPart \/ CataloguePart

\* Nothing that ConnFairness or DeliveryFairness asks for is enabled in the
\* initial state of its part, where a part that does not run stays.
Fairness == ConnFairness /\ DeliveryFairness

Spec == Init /\ [][Next]_cameraVars /\ Fairness
=============================================================================
