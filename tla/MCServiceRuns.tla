---------------------------- MODULE MCServiceRuns ----------------------------
EXTENDS ServiceRuns

MCSources == <<"premier-league", "dfb-pokal">>
MCManual == <<"manual-import">>
=============================================================================
