-------------------------- MODULE MCMetadataRefresh --------------------------
(* Two refreshes, two requests for an artwork whose image does not change, *)
(* two effects without answer, one death and one loss of power.            *)
EXTENDS MetadataRefresh

CONSTANTS i1

OneImage == {i1}

=============================================================================
