---- MODULE MCSafetyGuard ----
EXTENDS SafetyGuard
====
