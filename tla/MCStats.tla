------------------------------ MODULE MCStats ------------------------------
EXTENDS Stats

MixedKind == <<"gauge", "timestamp">>
UpDown == {-1, 1}
=============================================================================
