----------------------------- MODULE MCReadings ------------------------------
EXTENDS Readings

MCLabels ==
    [lte      |-> {"LTE"},
     nr5g_nsa |-> {"NR5G-NSA", "5G"},
     nr5g_sa  |-> {"NR_SA", "NR-DC"}]

MCCarriers == {<<>>, <<-1155, -900>>}

MCLevels == {-1155, -900}

Threshold == -1100
=============================================================================
