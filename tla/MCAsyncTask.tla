----------------------------- MODULE MCAsyncTask -----------------------------
EXTENDS AsyncTask
=============================================================================
