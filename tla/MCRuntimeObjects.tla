--------------------------- MODULE MCRuntimeObjects ---------------------------
(* TLC instance of RuntimeObjects: object ids are numbers, as they are       *)
(* released in the order of their ids.                                       *)
EXTENDS RuntimeObjects

MCDeclare == [type : {"declare"}, object : Objects, drop : BOOLEAN]
MCOwned == [type : {"declare"}, object : Objects, drop : {TRUE}]
MCReference == [type : {"reference"}, object : Objects, operation : Scope, version : Versions]
MCUse == [type : {"reference"}, object : Objects, operation : Operations, version : Versions]
MCChange == [type : {"change"}, object : Objects, delta : Deltas]
MCRelease == [type : {"release"}, object : Objects, operation : Scope]

MCEverything == MCDeclare \cup MCReference \cup MCChange \cup MCRelease

(* Everything about object 1; object 2 is only declared as owned and used by *)
(* operations, so that releasing runs find it behind object 1.               *)
MCProtocol ==
  {a \in MCEverything : a.object = 1} \cup {a \in MCOwned \cup MCUse : a.object = 2 /\ (a.type = "reference" => a.version = 1)}
=============================================================================
