------------------------- MODULE MCNavigationFacade -------------------------
EXTENDS NavigationFacade
=============================================================================
