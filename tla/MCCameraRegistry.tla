--------------------------- MODULE MCCameraRegistry ---------------------------
(* CameraRegistry with a configuration file that says nothing of the camera, *)
(* or has it turned, mirrored and silent.                                     *)
EXTENDS CameraRegistry

SomeConfigured == {[known |-> TRUE, rotate |-> 3, mirror |-> TRUE, audio |-> FALSE]}
=============================================================================
