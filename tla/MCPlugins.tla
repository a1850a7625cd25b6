----------------------------- MODULE MCPlugins ------------------------------
(* Plugins on listings of up to two plugins and one other entry, in every  *)
(* order; Windows lists "." first.                                         *)
EXTENDS Plugins

Entries == Files \cup Others
Listings == UNION {SetToSeqs(e) : e \in SUBSET Entries}
WindowsListings == {d \in Listings : d # << >> /\ d[1] \in Others}
=============================================================================
