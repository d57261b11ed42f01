--------------------------- MODULE MCSmartacMain ---------------------------
(***************************************************************************)
(* TLC instance of SmartacMain: every file of up to MaxLines lines over    *)
(* one value per keyword, but two hosts, so that the servers differ.       *)
(***************************************************************************)
EXTENDS SmartacMain

TwoSettings == {"GatewayAcInterface", "GatewayAcId"}
OneAttribute == {"PingPath"}
TwoValues == {"v", "w"}
TwoNames == {"a", "b"}
OnePopularList == {<<"a", "b">>}
FewLines == {l \in AllLines :
               /\ l.kind = "daemon" => l.value = 0
               /\ l.kind \in {"setting", "attribute"} /\ l.key # "Hostname" => l.value = "v"}
=============================================================================
