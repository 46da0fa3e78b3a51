---------------------------- MODULE MCSessions ----------------------------
(* Two calls of one tab, beside another tab of the user site, and a call of *)
(* a tab of each site.                                                      *)
EXTENDS Sessions

CONSTANTS t1, t2, c1, c2

UserTabs == [t \in Tabs |-> "user"]
BothSites == [UserTabs EXCEPT ![t2] = "admin"]
OneTab    == [c \in Calls |-> t1]
TwoTabs   == [OneTab EXCEPT ![c2] = t2]

BothLayouts == { [site |-> UserTabs, tabOf |-> OneTab], [site |-> BothSites, tabOf |-> TwoTabs] }
=============================================================================
