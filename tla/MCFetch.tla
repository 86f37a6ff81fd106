------------------------------- MODULE MCFetch --------------------------------
EXTENDS Fetch
UrlDef == {"home", "page", "moved"}
CodeDef == {200, 301, 302, 404}
RedirectDef == {301, 302}
===============================================================================
