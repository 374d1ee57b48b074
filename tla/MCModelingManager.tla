--------------------------- MODULE MCModelingManager ---------------------------
(* One boundary point makes an area.  Old databases have two areas, joined by *)
(* a connection, as a draft and as a version.  The first release brings a     *)
(* plan along, from before its points had a frame.                            *)
EXTENDS ModelingManager

\* The positions are those of places in the frame of place 0, or not known.
OldPoint(place, kind, known) ==
  [place |-> place, kind |-> kind, local |-> IF known THEN Local(0, place) ELSE 0]
OldGroup(known) ==
  [NewGroup("g") EXCEPT
     !.points = <<OldPoint(0, "boundary", known), OldPoint(1, "connection", known),
                  OldPoint(0, "connection", known), OldPoint(1, "boundary", known)>>,
     !.areas = 2, !.areasOk = TRUE, !.joined = TRUE, !.linksOk = TRUE]
OldDatabase(schema, origin, groups) ==
  [NoDatabase EXCEPT
     !.schema = schema, !.models = ("m" :> [origin |-> origin, confirmed |-> TRUE]),
     !.rows = (<<"m", 0>> :> groups) @@ (<<"m", 1>> :> groups),
     !.versions = (<<"m", 1>> :> TRUE)]
OldPlan ==
  [model |-> "m", version |-> 1, positions |-> <<0, 0, 0, 0>>, route |-> <<0, 1, 0, 1>>,
   preview |-> TRUE]
FirstDatabase == SavePlan(OldDatabase(1, NoOrigin, <<OldGroup(FALSE)>>), OldPlan)
SecondDatabase == OldDatabase(2, 0, <<OldGroup(TRUE)>>)
MCSamples == {<<0, "boundary">>, <<1, "boundary">>}
MCOldDatabases == {NoDatabase, FirstDatabase, SecondDatabase}
=============================================================================
