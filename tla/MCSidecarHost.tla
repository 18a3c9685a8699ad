--------------------------- MODULE MCSidecarHost ----------------------------
EXTENDS SidecarHost
=============================================================================
