------------------------------- MODULE AgentWindow -------------------------------
(***************************************************************************)
(* The Agent Window of a session, as far as its pages go: a set of tabs,   *)
(* each of which may show a document with a content script. A recording    *)
(* (Recording) and a request for help (HumanLoop) talk to these scripts.   *)
(***************************************************************************)
CONSTANTS
  Tabs, \* tabs of the Agent Window
  None  \* no tab

ASSUME WindowAssumption == None \notin Tabs
===============================================================================
