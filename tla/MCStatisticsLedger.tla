-------------------------- MODULE MCStatisticsLedger --------------------------
EXTENDS StatisticsLedger
MCLayers == {{"statistics"}, {"history"}, {"models"}, {"history", "statistics", "models"}}
===============================================================================
