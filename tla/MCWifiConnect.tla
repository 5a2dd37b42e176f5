--------------------------- MODULE MCWifiConnect ----------------------------
(* Instances of WifiConnect for TLC. Only bounds and inputs are chosen here. *)
EXTENDS WifiConnect, TLC

CONSTANTS c1, c2

OneCaller  == {c1}
TwoCallers == {c1, c2}
Symmetry   == Permutations(TwoCallers)

BothKinds == {"ssid", "bssid"}
Ssid      == {"ssid"}
Wpa       == {"WPA"}
Wpa2Aes   == {"WPA2_AES"}
EverySec  == {"OPEN", "WEP_PSK", "WEP_SHARED", "WPA"}
WaitOnly  == {TRUE}
BothWays  == BOOLEAN
OneReason == {"other"}
AllJoinReasons == {"auth", "assoc", "deauth", "other"}
NoneFull  == {}
ConnectFull == {"CONNECT"}
=============================================================================
