-------------------------------- MODULE MCWorld --------------------------------
(* The marker, a file, a folder's path and one inside it; texts of one and two *)
(* chunks; a daemon that announces a limb under the network organ's id.        *)
(* The marker is spelled in plain lower case behind separators, and in two     *)
(* ways whose normalized text is not WORLD.ID.                                 *)
EXTENDS World
MCWord == {"WORLD.ID", "world.id", "A", "a", "D", "B"}
MCUpper == [w \in MCWord |-> CASE w = "world.id" -> "WORLD.ID" [] w = "a" -> "A" [] OTHER -> w]
MCMarker == << "WORLD.ID" >>
MCPath == {MCMarker, << "A" >>, << "D" >>, << "D", "B" >>}
MCSpelling == {<< "\\", "/", "world.id" >>, << ".", "/", "WORLD.ID" >>,
               << "/", "\\", "WORLD.ID" >>, << "a" >>, << "D" >>, << "D", "/", "B" >>,
               << "..", "/", "A" >>}
MCText == {"certificate", "listing", "long"}
MCChunks == [t \in MCText |-> IF t = "long" THEN 2 ELSE 1]
MCOffers == {[id |-> "this-machine/net", caps |-> {"vision.look"}]}
================================================================================
