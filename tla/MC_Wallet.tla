------------------------------ MODULE MC_Wallet ------------------------------
EXTENDS Wallet

CONSTANTS a1, a2, a3, a4, p1, p2

MCAddresses == {a1, a2, a3, a4}

MCPasswords == {p1, p2, EmptyPassword}

=============================================================================
