----------------------------- MODULE MCNtpClient -----------------------------
EXTENDS NtpClient
=============================================================================
