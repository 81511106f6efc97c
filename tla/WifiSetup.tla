------------------------------ MODULE WifiSetup ------------------------------
(***************************************************************************)
(* `moorebot-scout wifi setup` as a whole (wifi_setup of main.rs): the     *)
(* password is read and the credentials are validated, and only then the   *)
(* Scout is looked for and the clock of provision_wifi starts.             *)
(***************************************************************************)
EXTENDS WifiProvisioning, WifiPassword

setupVars == <<vars, passwordVars>>

SetupInit == Init /\ PasswordInit

ReadStep == ReadPassword /\ UNCHANGED vars

Provision(step) == place = "accepted" /\ step /\ UNCHANGED passwordVars

(* The command has failed, or waits for a key that never comes. *)
NoPassword == place # "accepted" /\ UNCHANGED setupVars

SetupNext == ReadStep \/ Provision(Next) \/ NoPassword

SetupSpec == SetupInit /\ [][SetupNext]_setupVars

(* As in WifiProvisioning; nothing makes the user type. *)
SetupFairSpec ==
  /\ SetupSpec
  /\ WF_setupVars(Provision(Caller))
  /\ WF_setupVars(Provision(Tick))

SetupTypeOK == TypeOK /\ PasswordTypeOK

(* The credentials are sent at most once, after the robot's greeting, and  *)
(* they are the ones the user gave.                                        *)
CredentialsAsGiven ==
  /\ CredentialsOnce
  /\ PasswordAsTyped
  /\ writes > 0 => place = "accepted"

(* Once the credentials are accepted the command returns, whatever the     *)
(* network, the DNS server or the robot do.                                *)
SetupEnds == place = "accepted" ~> pc = "done"
=============================================================================
