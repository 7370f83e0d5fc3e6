-------------------------- MODULE MC_ScriptRunner --------------------------
EXTENDS ScriptRunner, ScriptFixtures
=============================================================================
