---------------------------- MODULE MCDetection ----------------------------
EXTENDS Detection, DetectionCases
=============================================================================
